---------------------------- MODULE Spec2Model ----------------------------
(***************************************************************************)
(* KDirWatch: the directory and file change-notification engine of         *)
(* src/src/lib/io/kdirwatch.cpp (KDirWatchPrivate and the KDirWatch        *)
(* facade), with the filesystem, the kernel's inotify queue, the           *)
(* QFileSystemWatcher primitive and Qt's event loop as its environment.    *)
(*                                                                         *)
(* Every handler of the engine is one action.  The handlers call each      *)
(* other recursively (addEntry -> addWatch -> useINotify -> addEntry on    *)
(* the parent), so they are written as operators from an engine state      *)
(* record to an engine state record, and an action commits the result.     *)
(***************************************************************************)
EXTENDS Integers, Sequences, FiniteSets, TLC

(***************************************************************************)
(* Bounds of the model.                                                    *)
(***************************************************************************)
MaxFsOps == 1      \* filesystem changes in one behaviour
MaxCalls == 4      \* facade calls in one behaviour
MaxCount == 2      \* registrations of one path by one instance (k)

(***************************************************************************)
(* Paths.  A path is the sequence of its components; "/" is <<>>.          *)
(***************************************************************************)
Root == <<>>
PA == <<"a">>
PB == <<"a", "b">>
PT == <<"a", "t">>
Paths == {Root, PA, PB, PT}

\* Paths the application can name that are not in the filesystem of the model: the
\* resource path ":/kio5" (a first component ":" stands for a path that begins with
\* ":/"), the empty path, /dev, /dev/null, /dev/.udev and /dev/shm
QrcPath == <<":", "kio5">>
EmptyPath == <<"<empty>">>
Dev == <<"dev">>
DevNull == <<"dev", "null">>
DevDot == <<"dev", ".udev">>
DevShm == <<"dev", "shm">>
OtherPaths == {QrcPath, EmptyPath, Dev, DevNull, DevDot, DevShm}
AllPaths == Paths \cup OtherPaths

\* names that begin with "." and names that begin with "shm"
DotNames == {".udev"}
ShmNames == {"shm"}

NoEntry == <<"<null>">>
NoInst == "<null>"

\* QDir(path).isRoot()
isRoot(p) == p = Root

\* QFileInfo(path).absolutePath(): the parent; the root is its own parent
parentDirectory(p) == IF p = Root THEN Root ELSE SubSeq(p, 1, Len(p) - 1)

\* e->path + '/' + name: for the root this is "//name", which is no entry's path
TPath(p, name) == IF p = Root THEN <<"", name>> ELSE Append(p, name)

LastName(p) == p[Len(p)]

\* the children a directory listing can show, in name order
ChildSeq(p) == IF p = PA THEN <<PB, PT>> ELSE IF p = Root THEN <<PA>> ELSE <<>>

NoisyNames == {".X.err", ".xsession-errors", ".fonts.cache"}
isNoisyFile(name) == name \in NoisyNames

(***************************************************************************)
(* Program constants.                                                      *)
(***************************************************************************)
invalid_ctime == -1
m_PollInterval == 500
m_nfsPollInterval == 5000
InitialFreq == 3600000

WatchDirOnly == {}
WatchFiles == {"WatchFiles"}
WatchSubDirs == {"WatchSubDirs"}

NoChange == {}
Changed == {"Changed"}
Created == {"Created"}
Deleted == {"Deleted"}

Instances == {"w1", "w2"}

VARIABLES
  \* ---- environment: the filesystem
  dirent,        \* path -> inode number, 0 when the path does not exist
  inode,         \* inode number -> [kind, nlink, ctime]
  gone,          \* path -> [ino, ctime] of the object the path held last
  \* ---- environment: the kernel's inotify instance and QFileSystemWatcher
  kwatch,        \* the kernel's watches: wd -> inode number
  nextWd,        \* the next watch descriptor the kernel hands out
  inq,           \* the kernel's queue of inotify records, oldest first
  fsw,           \* paths QFileSystemWatcher watches
  fswq,          \* paths QFileSystemWatcher has a change signal queued for
  \* ---- KDirWatchPrivate
  cfg,           \* m_preferredMethod, m_nfsPreferredMethod, supports_inotify, nfs,
                 \* m_PollInterval, m_nfsPollInterval
  m_mapEntries,  \* path -> Entry
  removeList,
  delayRemove,
  m_inotify_wd_to_entry,
  statEntries,
  freq,
  m_statRescanTimer,   \* active or not
  rescan_timer,        \* active or not (single shot)
  removeDelayedTimer,  \* QTimer::singleShot(0, slotRemoveDelayed) pending
  isStopped,           \* _isStopped
  looping,             \* a call does not return: it has entered a recursion that calls
                       \* itself with the same arguments in the same state, or it waits
                       \* in a read of the inotify descriptor
  \* ---- Qt's event loop
  evq,           \* queued signal deliveries, oldest first
  \* ---- the KDirWatch instances
  d,             \* instance -> the KDirWatchPrivate its d points to: "here" (the engine
                 \* above), "null", "there" (the engine of the thread it moved to),
                 \* or "deleted" (the instance has been destroyed)
  other,         \* the engine of that other thread, as the instances' calls change it
  m_referencesObjects,  \* engine ("here", "there") -> the instances ref() has recorded
  \* ---- observation
  got,           \* the signals delivered, in order
  budget,        \* what is left of MaxFsOps, MaxCalls and MaxPolls
  hist           \* what the properties need to remember of the past:
                 \*   reg    (instance, path) -> the application's adds minus removes
                 \*   adds   (instance, path) -> the application's adds
                 \*   deep   (instance, directory) added with WatchFiles or WatchSubDirs
                 \*   ops    the filesystem operations so far
                 \*   marks  Len(got) at each of them
                 \*   polled the stat timer has timed out since the last filesystem operation
                 \*   restarted  restartDirScan or startScan has been called

vars == <<dirent, inode, gone, kwatch, nextWd, inq, fsw, fswq, cfg, m_mapEntries,
          removeList, delayRemove, m_inotify_wd_to_entry, statEntries, freq,
          m_statRescanTimer, rescan_timer, removeDelayedTimer, isStopped, looping, evq,
          d, other, m_referencesObjects, got, budget, hist>>


(***************************************************************************)
(* The filesystem.  Inode 1 is the root directory.  A timestamp stands for *)
(* max(st_ctime, st_mtime) in seconds.  A change to an existing object     *)
(* gives it a later timestamp (the tests wait for the second to change     *)
(* before every change they expect to be seen, waitUntilMTimeChange); an   *)
(* object created where another one was removed may get the removed one's  *)
(* timestamp and inode number again ("to try and fool KDirWatch with       *)
(* unchanged ctime/mtime").                                                *)
(***************************************************************************)
MaxIno == 5
Inodes == 1..MaxIno
FreeInode == [kind |-> "free", nlink |-> 0, ctime |-> 0]

Exists(p) == p \in Paths /\ dirent[p] # 0
StatOf(p) == inode[dirent[p]]
IsDirPath(p) == Exists(p) /\ StatOf(p).kind = "dir"
HasChildren(p) == \E q \in Paths \ {Root} : parentDirectory(q) = p /\ dirent[q] # 0

Max2(a, b) == IF a >= b THEN a ELSE b
MinOf(S) == CHOOSE x \in S : \A y \in S : x <= y

\* the inode numbers a new object at p can get: the lowest free one that is not
\* the one p held last, or the one p held last
NewInodes(p) ==
  LET free == {i \in Inodes : inode[i].kind = "free"}
      fresh == free \ {gone[p].ino}
  IN  (IF fresh = {} THEN {} ELSE {MinOf(fresh)}) \cup (free \cap {gone[p].ino})

\* the timestamps a new object at p can get
NewStamps(p) == {gone[p].ctime, gone[p].ctime + 1}

\* one kernel record about inode i (IN_xxx names without the prefix)
KEv(i, mask, name, isdir) == [ino |-> i, mask |-> mask, name |-> name, isdir |-> isdir]

(***************************************************************************)
(* The result of a filesystem operation: the new filesystem, the kernel    *)
(* records in the order the kernel generates them, and for                 *)
(* QFileSystemWatcher the inodes it would signal a change for (touched)    *)
(* and those whose watch it drops (dropped); op names the operation.       *)
(***************************************************************************)
FsResult(op, de, i, g, kev, touched, dropped) ==
  [op |-> op, dirent |-> de, inode |-> i, gone |-> g, kev |-> kev, touched |-> touched,
   dropped |-> dropped]

\* createFile(path) of the tests: open (IN_CREATE), write "foo" (IN_MODIFY), close
FsCreateFile(p, ino, stamp) ==
  LET par == dirent[parentDirectory(p)]
  IN  FsResult(<<"create", p>>, [dirent EXCEPT ![p] = ino],
               [inode EXCEPT ![ino] = [kind |-> "file", nlink |-> 1, ctime |-> stamp],
                             ![par].ctime = @ + 1],
               gone,
               <<KEv(par, {"CREATE"}, LastName(p), FALSE), KEv(par, {"MODIFY"}, LastName(p), FALSE)>>,
               {par}, {})

\* QDir().mkdir(path)
FsMkdir(p, ino, stamp) ==
  LET par == dirent[parentDirectory(p)]
  IN  FsResult(<<"mkdir", p>>, [dirent EXCEPT ![p] = ino],
               [inode EXCEPT ![ino] = [kind |-> "dir", nlink |-> 1, ctime |-> stamp],
                             ![par].ctime = @ + 1],
               gone,
               <<KEv(par, {"CREATE"}, LastName(p), TRUE)>>,
               {par}, {})

\* QFile::remove(path) / rmdir: unlink; the inode goes with its last link
FsRemove(p) ==
  LET par == dirent[parentDirectory(p)]
      i == dirent[p]
      isdir == inode[i].kind = "dir"
      last == isdir \/ inode[i].nlink = 1
  IN  FsResult(<<"remove", p>>, [dirent EXCEPT ![p] = 0],
               [inode EXCEPT ![i] = IF last THEN FreeInode
                                    ELSE [@ EXCEPT !.nlink = @ - 1, !.ctime = @ + 1],
                             ![par].ctime = @ + 1],
               [gone EXCEPT ![p] = [ino |-> i, ctime |-> inode[i].ctime]],
               (IF isdir THEN <<>> ELSE <<KEv(i, {"ATTRIB"}, "", FALSE)>>)
                 \o <<KEv(par, {"DELETE"}, LastName(p), isdir)>>
                 \o (IF last THEN <<KEv(i, {"DELETE_SELF"}, "", FALSE), KEv(i, {"IGNORED"}, "", FALSE)>>
                     ELSE <<>>),
               {par, i}, IF last THEN {i} ELSE {})

\* appendToFile(path) of the tests
FsAppend(p) ==
  LET par == dirent[parentDirectory(p)]
      i == dirent[p]
  IN  FsResult(<<"append", p>>, dirent,
               [inode EXCEPT ![i].ctime = @ + 1],
               gone,
               <<KEv(i, {"MODIFY"}, "", FALSE), KEv(par, {"MODIFY"}, LastName(p), FALSE)>>,
               {i}, {})

\* QFile::rename(from, to), "to" overwritten when it exists (::rename)
FsRename(from, to) ==
  LET par == dirent[parentDirectory(to)]
      i == dirent[from]
      old == dirent[to]
      base == IF old # 0 THEN inode[old].ctime ELSE gone[to].ctime
      lastOld == old # 0 /\ inode[old].nlink = 1
      i1 == [inode EXCEPT ![i].ctime = Max2(@, base) + 1, ![par].ctime = @ + 1]
  IN  FsResult(<<"rename", to>>, [dirent EXCEPT ![from] = 0, ![to] = i],
               IF old = 0 THEN i1
               ELSE [i1 EXCEPT ![old] = IF lastOld THEN FreeInode
                                        ELSE [@ EXCEPT !.nlink = @ - 1, !.ctime = @ + 1]],
               [gone EXCEPT ![from] = [ino |-> i, ctime |-> inode[i].ctime],
                            ![to] = IF old = 0 THEN @ ELSE [ino |-> old, ctime |-> inode[old].ctime]],
               <<KEv(par, {"MOVED_FROM"}, LastName(from), FALSE),
                 KEv(par, {"MOVED_TO"}, LastName(to), FALSE)>>
                 \o (IF old # 0 THEN <<KEv(old, {"ATTRIB"}, "", FALSE)>> ELSE <<>>)
                 \o (IF lastOld THEN <<KEv(old, {"DELETE_SELF"}, "", FALSE), KEv(old, {"IGNORED"}, "", FALSE)>>
                     ELSE <<>>)
                 \o <<KEv(i, {"MOVE_SELF"}, "", FALSE)>>,
               {par, i} \cup (IF old # 0 THEN {old} ELSE {}),
               {i} \cup (IF lastOld THEN {old} ELSE {}))

\* ::link(from, to): a second name for from's inode
FsLink(from, to) ==
  LET par == dirent[parentDirectory(to)]
      i == dirent[from]
  IN  FsResult(<<"link", to>>, [dirent EXCEPT ![to] = i],
               [inode EXCEPT ![i] = [@ EXCEPT !.nlink = @ + 1,
                                              !.ctime = Max2(@, gone[to].ctime) + 1],
                             ![par].ctime = @ + 1],
               gone,
               <<KEv(i, {"ATTRIB"}, "", FALSE), KEv(par, {"CREATE"}, LastName(to), FALSE)>>,
               {par, i}, {})

(***************************************************************************)
(* The kernel: a record is queued for the watch on its inode, if any; the  *)
(* watch on an inode that is gone is removed (IN_IGNORED is its last       *)
(* record).  QFileSystemWatcher signals a watched path whose inode was     *)
(* touched and forgets a path whose inode was deleted or moved.            *)
(***************************************************************************)
WdOf(kw, i) == {wd \in DOMAIN kw : kw[wd] = i}

RECURSIVE KernelQueue(_, _, _)
KernelQueue(q, kw, kev) ==
  IF kev = <<>> THEN q
  ELSE LET r == Head(kev)
           wds == WdOf(kw, r.ino)
           q1 == IF wds = {} THEN q
                 ELSE Append(q, [wd |-> CHOOSE wd \in wds : TRUE, mask |-> r.mask,
                                 name |-> r.name, isdir |-> r.isdir])
       IN  KernelQueue(q1, kw, Tail(kev))

Restrict(f, S) == [x \in S |-> f[x]]

ApplyFs(r0) ==
  \E r \in {r0} :
  /\ budget.fs > 0
  /\ budget' = [budget EXCEPT !.fs = @ - 1]
  /\ dirent' = r.dirent
  /\ inode' = r.inode
  /\ gone' = r.gone
  /\ inq' = KernelQueue(inq, kwatch, r.kev)
  /\ kwatch' = Restrict(kwatch, {wd \in DOMAIN kwatch : r.inode[kwatch[wd]].kind # "free"})
  /\ fswq' = fswq \cup {p \in DOMAIN fsw : fsw[p] \in r.touched}
  /\ fsw' = Restrict(fsw, {p \in DOMAIN fsw : fsw[p] \notin r.dropped})
  /\ hist' = [hist EXCEPT !.ops = Append(@, r.op), !.marks = Append(@, Len(got)),
                          !.polled = FALSE]
  /\ UNCHANGED <<nextWd, cfg, m_mapEntries, removeList, delayRemove, m_inotify_wd_to_entry,
                 statEntries, freq, m_statRescanTimer, rescan_timer, removeDelayedTimer,
                 isStopped, looping, evq, d, other, m_referencesObjects, got>>

CanCreate(p) == p \in Paths \ {Root} /\ dirent[p] = 0 /\ IsDirPath(parentDirectory(p))

CreateFile(p) ==
  /\ CanCreate(p) /\ p # PA
  /\ \E ino \in NewInodes(p), stamp \in NewStamps(p) : ApplyFs(FsCreateFile(p, ino, stamp))

Mkdir(p) ==
  /\ CanCreate(p) /\ p # PT
  /\ \E ino \in NewInodes(p), stamp \in NewStamps(p) : ApplyFs(FsMkdir(p, ino, stamp))

\* the same, the new object getting an inode number and a timestamp the path never had
NewInode(p) == MinOf({i \in Inodes : inode[i].kind = "free"} \ {gone[p].ino})

CreateNewFile(p) ==
  /\ CanCreate(p) /\ p # PA
  /\ ApplyFs(FsCreateFile(p, NewInode(p), gone[p].ctime + 1))

MkdirNew(p) ==
  /\ CanCreate(p) /\ p # PT
  /\ ApplyFs(FsMkdir(p, NewInode(p), gone[p].ctime + 1))

Remove(p) ==
  /\ p \in Paths \ {Root} /\ dirent[p] # 0 /\ ~HasChildren(p)
  /\ ApplyFs(FsRemove(p))

AppendToFile(p) ==
  /\ Exists(p) /\ StatOf(p).kind = "file"
  /\ ApplyFs(FsAppend(p))

Rename(from, to) ==
  /\ Exists(from) /\ StatOf(from).kind = "file"
  /\ IsDirPath(parentDirectory(to))
  /\ IF dirent[to] = 0 THEN TRUE ELSE inode[dirent[to]].kind = "file"
  /\ dirent[to] # dirent[from]
  /\ ApplyFs(FsRename(from, to))

Link(from, to) ==
  /\ Exists(from) /\ StatOf(from).kind = "file"
  /\ CanCreate(to)
  /\ ApplyFs(FsLink(from, to))

(***************************************************************************)
(* KDirWatchPrivate.  S is the engine's state (with the kernel's and       *)
(* QFileSystemWatcher's, which its calls change):                          *)
(*   map, removeList, delayRemove, wdmap, statEntries, freq, statTimer,    *)
(*   rescanTimer, rdTimer, evq, got, kwatch, nextWd, inq, fsw, looping.    *)
(* An entry is named by its path, the key of m_mapEntries; an Entry* is    *)
(* that path.                                                              *)
(***************************************************************************)
Cur ==
  [map |-> m_mapEntries, removeList |-> removeList, delayRemove |-> delayRemove,
   wdmap |-> m_inotify_wd_to_entry, statEntries |-> statEntries, freq |-> freq,
   statTimer |-> m_statRescanTimer, rescanTimer |-> rescan_timer,
   rdTimer |-> removeDelayedTimer, evq |-> evq, got |-> got,
   kwatch |-> kwatch, nextWd |-> nextWd, inq |-> inq, fsw |-> fsw, looping |-> looping]

Commit(S) ==
  /\ m_mapEntries' = S.map
  /\ removeList' = S.removeList
  /\ delayRemove' = S.delayRemove
  /\ m_inotify_wd_to_entry' = S.wdmap
  /\ statEntries' = S.statEntries
  /\ freq' = S.freq
  /\ m_statRescanTimer' = S.statTimer
  /\ rescan_timer' = S.rescanTimer
  /\ removeDelayedTimer' = S.rdTimer
  /\ evq' = S.evq
  /\ got' = S.got
  /\ kwatch' = S.kwatch
  /\ nextWd' = S.nextWd
  /\ inq' = S.inq
  /\ fsw' = S.fsw
  /\ looping' = S.looping

\* One statement after another: v is evaluated once, and F continues from its value.
Bind(v, F(_)) == CHOOSE r \in {F(x) : x \in {v}} : TRUE

\* A call of one of KDirWatchPrivate's methods: Call(method, S, arguments) is that
\* method's result from state S (defined after the methods, which call each other).
RECURSIVE Call(_, _, _)

Put(f, k, v) == [x \in DOMAIN f \cup {k} |-> IF x = k THEN v ELSE f[x]]
Del(f, k) == [x \in DOMAIN f \ {k} |-> f[x]]

InSeq(x, s) == \E i \in 1..Len(s) : s[i] = x

\* Entry::findInstance: the index of the instance's Client, 0 when it has none
findInstance(clients, instance) ==
  IF \E i \in 1..Len(clients) : clients[i].instance = instance
  THEN CHOOSE i \in 1..Len(clients) :
         /\ clients[i].instance = instance
         /\ \A j \in 1..(i - 1) : clients[j].instance # instance
  ELSE 0

\* Client::Client(instance, watchModes)
NewClient(instance, watchModes, stopped) ==
  [instance |-> instance, count |-> 1, watchingStopped |-> stopped,
   pending |-> NoChange, m_watchModes |-> watchModes]

addClientAgain(clients, instance, watchModes, stopped) ==
  IF instance = NoInst THEN clients
  ELSE Append(clients, NewClient(instance, watchModes, stopped))

\* Entry::addClient
addClient(clients, instance, watchModes, stopped) ==
  IF instance = NoInst THEN clients
  ELSE LET i == findInstance(clients, instance)
       IN  IF i # 0
           THEN [clients EXCEPT ![i].count = @ + 1, ![i].m_watchModes = watchModes]
           ELSE Append(clients, NewClient(instance, watchModes, stopped))

removeClientAtOnce(clients, instance) ==
  LET i == findInstance(clients, instance)
  IN  IF i = 0 THEN clients
      ELSE SubSeq(clients, 1, i - 1) \o SubSeq(clients, i + 1, Len(clients))

\* a removal that takes the first client when the instance has none
removeClientAny(clients, instance) ==
  LET i == findInstance(clients, instance)
  IN  IF i = 0 THEN (IF clients = <<>> THEN clients ELSE Tail(clients))
      ELSE IF clients[i].count - 1 = 0
           THEN SubSeq(clients, 1, i - 1) \o SubSeq(clients, i + 1, Len(clients))
           ELSE [clients EXCEPT ![i].count = @ - 1]

\* Entry::removeClient
removeClient(clients, instance) ==
  LET i == findInstance(clients, instance)
  IN  IF i = 0 THEN clients
      ELSE IF clients[i].count - 1 = 0
           THEN SubSeq(clients, 1, i - 1) \o SubSeq(clients, i + 1, Len(clients))
           ELSE [clients EXCEPT ![i].count = @ - 1]

\* Entry::clientCount
RECURSIVE clientCount(_)
clientCount(clients) ==
  IF clients = <<>> THEN 0 ELSE Head(clients).count + clientCount(Tail(clients))

\* Entry::isValid: "now e->isValid() is false" once m_clients and m_entries are empty
isValid(e) == e.m_clients # <<>> \/ e.m_entries # <<>>

\* Entry::findSubEntry(path): the sub-entry with that path
findSubEntry(e, tpath) == InSeq(tpath, e.m_entries)

\* Entry::inotifyClientsForFileOrDir
inotifyClientsForFileOrDir(e, isDir) ==
  LET flag == IF isDir THEN "WatchSubDirs" ELSE "WatchFiles"
      Has(c) == flag \in c.m_watchModes
  IN  SelectSeq(e.m_clients, Has)

\* KDirWatchPrivate::entry(path)
entry(S, p) == p \in DOMAIN S.map

\* KFileSystemType::fileSystemType(path) == Nfs
IsNfs(p) == cfg.nfs \/ p \in cfg.mount

\* addEntry with the /dev tree watched like any other
RejectedQrcOnly(p) == p # <<>> /\ p[1] = ":"

\* addEntry: ":/" paths, the empty path and the /dev tree (but for /dev/.* and
\* /dev/shm*) are not watched
Rejected(p) ==
  \/ p # <<>> /\ p[1] = ":"
  \/ p = EmptyPath
  \/ p = Dev
  \/ Len(p) >= 2 /\ p[1] = "dev" /\ p[2] \notin DotNames /\ p[2] \notin ShmNames

\* useFreq
useFreq(S, e, newFreq) ==
  [S EXCEPT !.map[e].freq = newFreq, !.freq = IF newFreq < @ THEN newFreq ELSE @]

\* useStat
useStat(S0, e) ==
  LET Rest(S) ==
        IF S.map[e].m_mode # "StatMode"
        THEN [S EXCEPT !.map[e].m_mode = "StatMode",
                       !.statEntries = @ + 1,
                       !.statTimer = IF S.statEntries + 1 = 1 THEN TRUE ELSE @]
        ELSE S
  IN  Bind(useFreq(S0, e, IF IsNfs(e) THEN cfg.nfsPoll ELSE cfg.poll), Rest)

\* inotify_add_watch of a kernel that hands out the lowest descriptor not in use
InotifyAddWatchLowest(S0, e) ==
  LET Rest(S) ==
        IF ~Exists(e) THEN [S |-> S, wd |-> -1]
        ELSE LET old == WdOf(S.kwatch, dirent[e])
                 low == MinOf({wd \in 1..S.nextWd : wd \notin DOMAIN S.kwatch})
             IN  IF old # {} THEN [S |-> S, wd |-> CHOOSE wd \in old : TRUE]
                 ELSE IF Cardinality(DOMAIN S.kwatch) >= cfg.max_user_watches
                 THEN [S |-> S, wd |-> -1]
                 ELSE [S |-> [S EXCEPT !.kwatch = Put(@, low, dirent[e]), !.nextWd = @ + 1],
                       wd |-> low]
  IN  Bind(S0, Rest)

\* inotify_add_watch(fd, path, mask): the inode's watch if it has one, else a new one;
\* -1 when the path does not exist (ENOENT) or the user's watches are used up (ENOSPC)
InotifyAddWatch(S0, e) ==
  LET Rest(S) ==
        IF ~Exists(e) THEN [S |-> S, wd |-> -1]
        ELSE LET old == WdOf(S.kwatch, dirent[e])
             IN  IF old # {} THEN [S |-> S, wd |-> CHOOSE wd \in old : TRUE]
                 ELSE IF Cardinality(DOMAIN S.kwatch) >= cfg.max_user_watches
                 THEN [S |-> S, wd |-> -1]
                 ELSE [S |-> [S EXCEPT !.kwatch = Put(@, S.nextWd, dirent[e]), !.nextWd = @ + 1],
                       wd |-> S.nextWd]
  IN  Bind(S0, Rest)

\* inotify_rm_watch(fd, wd): the kernel queues IN_IGNORED for a watch it removes
InotifyRmWatch(S0, wd) ==
  LET Rest(S) ==
        IF wd \in DOMAIN S.kwatch
        THEN [S EXCEPT !.kwatch = Del(@, wd),
                       !.inq = Append(@, [wd |-> wd, mask |-> {"IGNORED"}, name |-> "",
                                          isdir |-> FALSE])]
        ELSE S
  IN  Bind(S0, Rest)

RECURSIVE addChildren(_, _, _, _)

\* useINotify: [S, ok]
useINotify(S0, e) ==
  LET Watched(r) ==
        IF r.wd # -1
        THEN [S |-> [r.S EXCEPT !.map[e].wd = r.wd, !.wdmap = Put(@, r.wd, e)], ok |-> TRUE]
        ELSE [S |-> r.S, ok |-> FALSE]
      Rest(S) ==
        IF ~cfg.supports_inotify THEN [S |-> S, ok |-> FALSE]
        ELSE IF S.map[e].m_status = "NonExistent"
        THEN IF isRoot(e) THEN [S |-> S, ok |-> FALSE]
             ELSE [S |-> Call("addEntry", S, <<NoInst, parentDirectory(e), e, TRUE, WatchDirOnly>>),
                   ok |-> TRUE]
        ELSE Bind(InotifyAddWatch(S, e), Watched)
  IN  Bind([S0 EXCEPT !.map[e].wd = -1, !.map[e].dirty = FALSE,
                      !.map[e].m_mode = IF cfg.supports_inotify THEN "INotifyMode" ELSE @],
           Rest)

\* QFileSystemWatcher::addPath: a path that does not exist is not added
fswAddPath(S0, p) ==
  LET Rest(S) ==
        IF Exists(p) /\ p \notin DOMAIN S.fsw THEN [S EXCEPT !.fsw = Put(@, p, dirent[p])]
        ELSE S
  IN  Bind(S0, Rest)

\* useQFSWatch: [S, ok]
useQFSWatch(S0, e) ==
  LET Rest(S) ==
        IF S.map[e].m_status = "NonExistent"
        THEN IF isRoot(e) THEN [S |-> S, ok |-> FALSE]
             ELSE [S |-> Call("addEntry", S, <<NoInst, parentDirectory(e), e, TRUE, WatchDirOnly>>),
                   ok |-> TRUE]
        ELSE [S |-> fswAddPath(S, e), ok |-> TRUE]
  IN  Bind([S0 EXCEPT !.map[e].m_mode = "QFSWatchMode", !.map[e].dirty = FALSE], Rest)

\* addWatch trying QFSWatch although INotify, the preferred method, failed
addWatchRetry(S0, e) ==
  LET preferredMethod ==
        IF cfg.nfsMethod # cfg.method /\ IsNfs(e) THEN cfg.nfsMethod ELSE cfg.method
      Last(q) ==
        IF q.ok THEN q.S
        ELSE IF preferredMethod # "Stat" THEN Call("useStat", q.S, <<e>>) ELSE q.S
      Second(i) ==
        IF i.ok THEN i.S
        ELSE Bind(IF preferredMethod # "QFSWatch" THEN Call("useQFSWatch", i.S, <<e>>)
                  ELSE [S |-> i.S, ok |-> FALSE],
                  Last)
      First(f) ==
        IF f.ok THEN f.S
        ELSE Bind(IF preferredMethod # "INotify" THEN Call("useINotify", f.S, <<e>>)
                  ELSE [S |-> f.S, ok |-> FALSE],
                  Second)
  IN  Bind(CASE preferredMethod = "INotify" -> Call("useINotify", S0, <<e>>)
             [] preferredMethod = "QFSWatch" -> Call("useQFSWatch", S0, <<e>>)
             [] OTHER -> [S |-> Call("useStat", S0, <<e>>), ok |-> TRUE],
           First)

\* addWatch
addWatch(S0, e) ==
  LET preferredMethod ==
        IF cfg.nfsMethod # cfg.method /\ IsNfs(e) THEN cfg.nfsMethod ELSE cfg.method
      Last(q) ==
        IF q.ok THEN q.S
        ELSE IF preferredMethod # "Stat" THEN Call("useStat", q.S, <<e>>) ELSE q.S
      \* inotifyFailed is set exactly when the preferred method is INotify and it failed
      Second(i) ==
        IF i.ok THEN i.S
        ELSE Bind(IF preferredMethod \notin {"QFSWatch", "INotify"} THEN Call("useQFSWatch", i.S, <<e>>)
                  ELSE [S |-> i.S, ok |-> FALSE],
                  Last)
      First(f) ==
        IF f.ok THEN f.S
        ELSE Bind(IF preferredMethod # "INotify" THEN Call("useINotify", f.S, <<e>>)
                  ELSE [S |-> f.S, ok |-> FALSE],
                  Second)
  IN  Bind(CASE preferredMethod = "INotify" -> Call("useINotify", S0, <<e>>)
             [] preferredMethod = "QFSWatch" -> Call("useQFSWatch", S0, <<e>>)
             [] OTHER -> [S |-> Call("useStat", S0, <<e>>), ok |-> TRUE],
           First)

\* addEntry's loop over the directory's listing
addChildren(S0, instance, cs, watchModes) ==
  IF cs = <<>> THEN S0
  ELSE LET c == Head(cs)
           cIsDir == IsDirPath(c)
           wanted == /\ Exists(c)
                     /\ IF cIsDir THEN "WatchSubDirs" \in watchModes
                        ELSE "WatchFiles" \in watchModes /\ cfg.method # "INotify"
           Rest(S) == addChildren(S, instance, Tail(cs), watchModes)
       IN  Bind(IF wanted
                THEN Call("addEntry", S0, <<instance, c, NoEntry, cIsDir,
                                            IF cIsDir THEN watchModes ELSE WatchDirOnly>>)
                ELSE S0,
                Rest)

\* the Entry addEntry inserts for a path that has none
NewEntry(instance, path, sub_entry, isDir, watchModes) ==
  LET exists == Exists(path)
      eIsDir == IF exists THEN StatOf(path).kind = "dir" ELSE isDir
      wm == IF exists /\ ~eIsDir /\ watchModes # WatchDirOnly THEN WatchDirOnly
            ELSE watchModes
  IN  [isDir |-> eIsDir,
       m_status |-> IF exists THEN "Normal" ELSE "NonExistent",
       m_mode |-> "UnknownMode",
       wd |-> 0,
       m_ctime |-> IF exists THEN StatOf(path).ctime ELSE invalid_ctime,
       m_ino |-> IF exists THEN dirent[path] ELSE 0,
       m_nlink |-> IF exists THEN StatOf(path).nlink ELSE 0,
       m_clients |-> IF sub_entry = NoEntry
                     THEN addClient(<<>>, instance, wm, isStopped) ELSE <<>>,
       m_entries |-> IF sub_entry # NoEntry THEN <<sub_entry>> ELSE <<>>,
       dirty |-> FALSE,
       m_pendingFileChanges |-> <<>>,
       freq |-> 0,
       msecLeft |-> 0]

\* addEntry(instance, path, sub_entry, isDir, watchModes)
addEntry(S0, instance, path, sub_entry, isDir, watchModes) ==
  LET Watch(S) == Call("addWatch", S, <<path>>)
      Rest(S) ==
        IF Rejected(path) THEN S
        ELSE IF path \in DOMAIN S.map
        THEN IF sub_entry # NoEntry
             THEN [S EXCEPT !.map[path].m_entries = Append(@, sub_entry)]
             ELSE [S EXCEPT !.map[path].m_clients = addClient(@, instance, watchModes, isStopped)]
        ELSE IF isNoisyFile(IF path = Root THEN "/" ELSE LastName(path))
        THEN [S EXCEPT !.map = Put(@, path, NewEntry(instance, path, sub_entry, isDir, watchModes))]
        ELSE LET wm == IF Exists(path) /\ ~IsDirPath(path) THEN WatchDirOnly ELSE watchModes
             IN  Bind(IF IsDirPath(path) /\ wm # WatchDirOnly
                      THEN addChildren([S EXCEPT !.map = Put(@, path,
                                            NewEntry(instance, path, sub_entry, isDir, watchModes))],
                                       instance, ChildSeq(path), wm)
                      ELSE [S EXCEPT !.map = Put(@, path,
                                NewEntry(instance, path, sub_entry, isDir, watchModes))],
                      Watch)
  IN  Bind(S0, Rest)

\* removeWatch
removeWatch(S0, e) ==
  LET Rest(S) ==
        IF S.map[e].m_mode = "INotifyMode"
        THEN InotifyRmWatch([S EXCEPT !.wdmap = Del(@, S.map[e].wd)], S.map[e].wd)
        ELSE IF S.map[e].m_mode = "QFSWatchMode"
        THEN [S EXCEPT !.fsw = Del(@, e)]
        ELSE S
  IN  Bind(S0, Rest)

removeEntryAtOnce(S0, instance, e, sub_entry) ==
  LET NotSub(x) == x # sub_entry
      Erase(S) ==
        [S EXCEPT !.statEntries = IF S.map[e].m_mode = "StatMode" THEN @ - 1 ELSE @,
                  !.statTimer = IF S.map[e].m_mode = "StatMode" /\ S.statEntries - 1 = 0
                                THEN FALSE ELSE @,
                  !.wdmap = Del(@, S.map[e].wd),
                  !.map = Del(@, e)]
      Rest(S) ==
        IF isValid(S.map[e]) THEN S
        ELSE Bind(IF S.map[e].m_status = "Normal" THEN Call("removeWatch", S, <<e>>)
                  ELSE Call("removeEntry", S, <<NoInst, parentDirectory(e), e>>),
                  Erase)
      Start(S) ==
        IF e \notin DOMAIN S.map THEN S
        ELSE Bind(IF sub_entry # NoEntry
                  THEN [S EXCEPT !.removeList = @ \ {e},
                                 !.map[e].m_entries = SelectSeq(@, NotSub)]
                  ELSE [S EXCEPT !.removeList = @ \ {e},
                                 !.map[e].m_clients = removeClient(@, instance)],
                  Rest)
  IN  Bind(S0, Start)

\* removeEntry(instance, e, sub_entry), and its overload taking a path.  For an invalid
\* NonExistent entry that is its own parent directory (the root), the call
\* removeEntry(nullptr, e->parentDirectory(), e) finds the same entry in the same state
\* and makes the same call again: the recursion does not return (looping).
removeEntry(S0, instance, e, sub_entry) ==
  LET NotSub(x) == x # sub_entry
      Erase(S) ==
        IF S.looping THEN S
        ELSE
        [S EXCEPT !.statEntries = IF S.map[e].m_mode = "StatMode" THEN @ - 1 ELSE @,
                  !.statTimer = IF S.map[e].m_mode = "StatMode" /\ S.statEntries - 1 = 0
                                THEN FALSE ELSE @,
                  !.wdmap = Del(@, S.map[e].wd),
                  !.map = Del(@, e)]
      Rest(S) ==
        IF isValid(S.map[e]) THEN S
        ELSE IF S.delayRemove THEN [S EXCEPT !.removeList = @ \cup {e}]
        ELSE Bind(IF S.map[e].m_status = "Normal" THEN Call("removeWatch", S, <<e>>)
                  ELSE IF parentDirectory(e) = e THEN [S EXCEPT !.looping = TRUE]
                  ELSE Call("removeEntry", S, <<NoInst, parentDirectory(e), e>>),
                  Erase)
      Start(S) ==
        IF e \notin DOMAIN S.map THEN S
        ELSE Bind(IF sub_entry # NoEntry
                  THEN [S EXCEPT !.removeList = @ \ {e},
                                 !.map[e].m_entries = SelectSeq(@, NotSub)]
                  ELSE [S EXCEPT !.removeList = @ \ {e},
                                 !.map[e].m_clients = removeClient(@, instance)],
                  Rest)
  IN  Bind(S0, Start)

\* the keys of m_mapEntries in the map's order
PathOrder == <<Root, PA, PB, PT, Dev, DevDot, DevNull, DevShm, QrcPath, EmptyPath>>
PathRank(p) == CHOOSE i \in 1..Len(PathOrder) : PathOrder[i] = p

\* removeEntries' second loop: removeEntry for every path of the list
RECURSIVE removePaths(_, _, _)
removePaths(S0, instance, ps) ==
  IF ps = <<>> THEN S0
  ELSE LET Rest(S) == removePaths(S, instance, Tail(ps))
       IN  Bind(Call("removeEntry", S0, <<instance, Head(ps), NoEntry>>), Rest)

\* removeEntry for every entry of the instance, the registration counts left as they are
removeEntriesCounted(S0, instance) ==
  LET Mine(e) == e \in DOMAIN S0.map /\ findInstance(S0.map[e].m_clients, instance) # 0
  IN  removePaths(S0, instance, SelectSeq(PathOrder, Mine))

\* removeEntries(instance): the instance's count is set to 1 in every entry it is a client
\* of, removeEntry is called for each of these, and the polling interval is raised to the
\* smallest one of the polled entries of the other instances
removeEntries(S0, instance) ==
  LET Mine(e) == e \in DOMAIN S0.map /\ findInstance(S0.map[e].m_clients, instance) # 0
      pathList == SelectSeq(PathOrder, Mine)
      others == {e \in DOMAIN S0.map : ~Mine(e) /\ S0.map[e].m_mode = "StatMode"
                                        /\ S0.map[e].freq < InitialFreq}
      minfreq == IF others = {} THEN InitialFreq
                 ELSE CHOOSE f \in {S0.map[e].freq : e \in others} :
                        \A e \in others : f <= S0.map[e].freq
      Forced(e) ==
        IF Mine(e)
        THEN [S0.map[e] EXCEPT
                !.m_clients[findInstance(S0.map[e].m_clients, instance)].count = 1]
        ELSE S0.map[e]
      Freq(S) == IF minfreq > S.freq THEN [S EXCEPT !.freq = minfreq] ELSE S
  IN  Bind(removePaths([S0 EXCEPT !.map = [e \in DOMAIN S0.map |-> Forced(e)]],
                       instance, pathList),
           Freq)

(***************************************************************************)
(* emitEvent: one queued call per signal and client, Deleted before        *)
(* Created before Changed; a stopped client is skipped.                    *)
(***************************************************************************)
Signal(c, sig, path) == [inst |-> c.instance, sig |-> sig, path |-> path]

\* the calls queued for one client, setCreated before setDeleted
SignalsCreatedFirst(c, ev, path) ==
  (IF "Created" \in ev THEN <<Signal(c, "created", path)>> ELSE <<>>)
    \o (IF "Deleted" \in ev THEN <<Signal(c, "deleted", path)>> ELSE <<>>)
    \o (IF "Changed" \in ev THEN <<Signal(c, "dirty", path)>> ELSE <<>>)

Signals(c, ev, path) ==
  (IF "Deleted" \in ev THEN <<Signal(c, "deleted", path)>> ELSE <<>>)
    \o (IF "Created" \in ev THEN <<Signal(c, "created", path)>> ELSE <<>>)
    \o (IF "Changed" \in ev THEN <<Signal(c, "dirty", path)>> ELSE <<>>)

\* emitEvent's loop, from client i on: a = [clients, evq, event]
RECURSIVE emitClients(_, _, _)
emitClients(a0, i, path) ==
  LET Rest(a) ==
        IF i > Len(a.clients) THEN a
        ELSE LET c == a.clients[i]
                 ev == IF a.event = NoChange \/ a.event = Changed
                       THEN a.event \cup c.pending ELSE a.event
             IN  IF c.instance = NoInst \/ c.count = 0 \/ c.watchingStopped
                 THEN emitClients(a, i + 1, path)
                 ELSE emitClients([clients |-> [a.clients EXCEPT ![i].pending = NoChange],
                                   evq |-> a.evq \o Signals(c, ev, path),
                                   event |-> ev],
                                  i + 1, path)
  IN  Bind(a0, Rest)

\* emitEvent calling the instance's setDeleted, setCreated and setDirty itself, where it
\* stands, and not through queued calls
emitEventDirect(S0, e, event, path) ==
  LET Rest(S) ==
        LET Done(a) == [S EXCEPT !.map[e].m_clients = a.clients,
                                 !.got = @ \o SubSeq(a.evq, Len(S.evq) + 1, Len(a.evq))]
        IN  Bind(emitClients([clients |-> S.map[e].m_clients, evq |-> S.evq, event |-> event],
                             1, path),
                 Done)
  IN  Bind(S0, Rest)

\* emitEvent(e, event, fileName); path is fileName, or e's path when fileName is empty
emitEvent(S0, e, event, path) ==
  LET Rest(S) ==
        LET Done(a) == [S EXCEPT !.map[e].m_clients = a.clients, !.evq = a.evq]
        IN  Bind(emitClients([clients |-> S.map[e].m_clients, evq |-> S.evq, event |-> event],
                             1, path),
                 Done)
  IN  Bind(S0, Rest)

(***************************************************************************)
(* scanEntry: [S, ev]                                                      *)
(***************************************************************************)
\* scanEntry's step for an entry found to exist while its status is NonExistent, with
\* the time of the last change not taken from the new object
justCreatedStale(S0, e) ==
  Call("removeEntry",
       [S0 EXCEPT !.map[e].m_status = "Normal", !.map[e].m_ino = dirent[e]],
       <<NoInst, parentDirectory(e), e>>)

\* scanEntry's step for an entry found to exist while its status is NonExistent, with
\* the entry left in its parent's list of sub-entries
justCreatedListed(S0, e) ==
  [S0 EXCEPT !.map[e].m_ctime = StatOf(e).ctime,
             !.map[e].m_status = "Normal",
             !.map[e].m_ino = dirent[e]]

\* scanEntry's step for an entry found to exist while its status is NonExistent: take the
\* object's time and inode number, and make sure the entry is not listed in its parent
justCreated(S0, e) ==
  Call("removeEntry",
       [S0 EXCEPT !.map[e].m_ctime = StatOf(e).ctime,
                  !.map[e].m_status = "Normal",
                  !.map[e].m_ino = dirent[e]],
       <<NoInst, parentDirectory(e), e>>)

\* scanEntry's step for an entry whose inode number changed: the file got deleted and
\* recreated, watch it again
watchAgain(S0, e) ==
  LET SetIno(S2) == [S2 EXCEPT !.map[e].m_ino = dirent[e]]
      Watch(S1) == Bind(Call("addWatch", S1, <<e>>), SetIno)
  IN  Bind(Call("removeWatch", S0, <<e>>), Watch)

\* a scan that takes a path that is gone for one that has changed
scanStatGoneIsChanged(S0, e) ==
  LET Rest(S) ==
        IF Exists(e)
        THEN IF S.map[e].m_status = "NonExistent"
             THEN [S |-> justCreated(S, e), ev |-> Created]
             ELSE IF S.map[e].m_ctime # invalid_ctime
                     /\ (StatOf(e).ctime # S.map[e].m_ctime \/ dirent[e] # S.map[e].m_ino
                         \/ StatOf(e).nlink # S.map[e].m_nlink)
             THEN IF S.map[e].m_ino # dirent[e]
                  THEN [S |-> watchAgain([S EXCEPT !.map[e].m_ctime = StatOf(e).ctime,
                                                   !.map[e].m_nlink = StatOf(e).nlink],
                                         e),
                        ev |-> Deleted \cup Created]
                  ELSE [S |-> [S EXCEPT !.map[e].m_ctime = StatOf(e).ctime,
                                        !.map[e].m_nlink = StatOf(e).nlink],
                        ev |-> Changed]
             ELSE [S |-> S, ev |-> NoChange]
        ELSE IF S.map[e].m_ctime = invalid_ctime
        THEN [S |-> [S EXCEPT !.map[e].m_nlink = 0, !.map[e].m_ino = 0,
                              !.map[e].m_status = "NonExistent"],
              ev |-> NoChange]
        ELSE [S |-> [S EXCEPT !.map[e].m_nlink = 0, !.map[e].m_ino = 0,
                              !.map[e].m_status = "NonExistent",
                              !.map[e].m_ctime = invalid_ctime],
              ev |-> Changed]
  IN  Bind(S0, Rest)

\* the part of scanEntry after the mode checks: stat the path and classify
scanStat(S0, e) ==
  LET Rest(S) ==
        IF Exists(e)
        THEN IF S.map[e].m_status = "NonExistent"
             THEN [S |-> justCreated(S, e), ev |-> Created]
             ELSE IF S.map[e].m_ctime # invalid_ctime
                     /\ (StatOf(e).ctime # S.map[e].m_ctime \/ dirent[e] # S.map[e].m_ino
                         \/ StatOf(e).nlink # S.map[e].m_nlink)
             THEN IF S.map[e].m_ino # dirent[e]
                  THEN [S |-> watchAgain([S EXCEPT !.map[e].m_ctime = StatOf(e).ctime,
                                                   !.map[e].m_nlink = StatOf(e).nlink],
                                         e),
                        ev |-> Deleted \cup Created]
                  ELSE [S |-> [S EXCEPT !.map[e].m_ctime = StatOf(e).ctime,
                                        !.map[e].m_nlink = StatOf(e).nlink],
                        ev |-> Changed]
             ELSE [S |-> S, ev |-> NoChange]
        ELSE IF S.map[e].m_ctime = invalid_ctime
        THEN [S |-> [S EXCEPT !.map[e].m_nlink = 0, !.map[e].m_ino = 0,
                              !.map[e].m_status = "NonExistent"],
              ev |-> NoChange]
        ELSE [S |-> [S EXCEPT !.map[e].m_nlink = 0, !.map[e].m_ino = 0,
                              !.map[e].m_status = "NonExistent",
                              !.map[e].m_ctime = invalid_ctime],
              ev |-> Deleted]
  IN  Bind(S0, Rest)

\* a scan that sets msecLeft of a polled entry to the entry's freq when its time has come
scanEntryRefill(S0, e) ==
  LET Rest(S) ==
        IF S.map[e].m_mode = "UnknownMode" THEN [S |-> S, ev |-> NoChange]
        ELSE IF S.map[e].m_mode = "INotifyMode"
        THEN IF ~S.map[e].dirty THEN [S |-> S, ev |-> NoChange]
             ELSE scanStat([S EXCEPT !.map[e].dirty = FALSE], e)
        ELSE IF S.map[e].m_mode = "StatMode"
        THEN IF S.map[e].msecLeft - S.freq > 0
             THEN [S |-> [S EXCEPT !.map[e].msecLeft = @ - S.freq], ev |-> NoChange]
             ELSE scanStat([S EXCEPT !.map[e].msecLeft = S.map[e].freq], e)
        ELSE scanStat(S, e)
  IN  Bind(S0, Rest)

scanEntry(S0, e) ==
  LET Rest(S) ==
        IF S.map[e].m_mode = "UnknownMode" THEN [S |-> S, ev |-> NoChange]
        ELSE IF S.map[e].m_mode = "INotifyMode"
        THEN IF ~S.map[e].dirty THEN [S |-> S, ev |-> NoChange]
             ELSE scanStat([S EXCEPT !.map[e].dirty = FALSE], e)
        ELSE IF S.map[e].m_mode = "StatMode"
        THEN IF S.map[e].msecLeft - S.freq > 0
             THEN [S |-> [S EXCEPT !.map[e].msecLeft = @ - S.freq], ev |-> NoChange]
             ELSE scanStat([S EXCEPT !.map[e].msecLeft = @ - S.freq + S.map[e].freq], e)
        ELSE scanStat(S, e)
  IN  Bind(S0, Rest)

(***************************************************************************)
(* slotRemoveDelayed                                                       *)
(***************************************************************************)
FirstPath(ps) == CHOOSE p \in ps : \A q \in ps : PathRank(p) <= PathRank(q)

\* a sweep that erases every entry of the list, watched again or not
RECURSIVE drainRemoveListAll(_)
drainRemoveListAll(S0) ==
  LET Rest(S) ==
        IF S.removeList = {} THEN S
        ELSE LET e == FirstPath(S.removeList)
             IN  drainRemoveListAll(
                   Call("removeEntry",
                        [S EXCEPT !.map[e].m_clients = <<>>, !.map[e].m_entries = <<>>],
                        <<NoInst, e, NoEntry>>))
  IN  Bind(S0, Rest)

RECURSIVE drainRemoveList(_)
drainRemoveList(S0) ==
  LET Rest(S) ==
        IF S.removeList = {} THEN S
        ELSE drainRemoveList(Call("removeEntry", S, <<NoInst, FirstPath(S.removeList), NoEntry>>))
  IN  Bind(S0, Rest)

\* slotRemoveDelayed clearing delayRemove and leaving the removal list as it is
slotRemoveDelayedNoSweep(S) == [S EXCEPT !.delayRemove = FALSE, !.rdTimer = FALSE]

slotRemoveDelayed(S) == drainRemoveList([S EXCEPT !.delayRemove = FALSE, !.rdTimer = FALSE])

(***************************************************************************)
(* slotRescan                                                              *)
(***************************************************************************)
\* Entry::propagate_dirty
RECURSIVE propagate_dirty(_, _)
RECURSIVE propagateList(_, _)
propagateList(S0, subs) ==
  LET Rest(S) ==
        IF subs = <<>> THEN S
        ELSE propagateList(IF Head(subs) \in DOMAIN S.map /\ ~S.map[Head(subs)].dirty
                           THEN propagate_dirty([S EXCEPT !.map[Head(subs)].dirty = TRUE],
                                                Head(subs))
                           ELSE S,
                           Tail(subs))
  IN  Bind(S0, Rest)

propagate_dirty(S0, e) ==
  LET Rest(S) == propagateList(S, S.map[e].m_entries)
  IN  Bind(S0, Rest)


RECURSIVE propagateAll(_, _)
propagateAll(S0, ps) ==
  LET Rest(S) ==
        IF ps = <<>> THEN S
        ELSE propagateAll(IF Head(ps) \in DOMAIN S.map
                             /\ S.map[Head(ps)].m_mode \in {"INotifyMode", "QFSWatchMode"}
                             /\ S.map[Head(ps)].dirty
                          THEN propagate_dirty(S, Head(ps)) ELSE S,
                          Tail(ps))
  IN  Bind(S0, Rest)

\* the list as it is, a name as often as it was appended
keepDuplicates(s) == s

\* QStringList::removeDuplicates
RECURSIVE removeDuplicates(_)
removeDuplicates(s) ==
  IF s = <<>> THEN <<>>
  ELSE LET Rest(init) == IF InSeq(s[Len(s)], init) THEN init ELSE Append(init, s[Len(s)])
       IN  Bind(removeDuplicates(SubSeq(s, 1, Len(s) - 1)), Rest)

\* slotRescan: report the files that have changed in this directory
RECURSIVE emitPending(_, _, _)
emitPending(S0, e, names) ==
  IF names = <<>> THEN S0
  ELSE emitPending(Call("emitEvent", S0, <<e, Changed, Head(names)>>), e, Tail(names))

\* the body of slotRescan's loop for one entry: a = [S, cList]
rescanOne(a0, e) ==
  LET Emit(b) ==
        [S |-> IF b.ev # NoChange THEN Call("emitEvent", b.S, <<e, b.ev, e>>) ELSE b.S,
         cList |-> b.cList]
      Pending(b) ==
        Bind([S |-> IF b.S.map[e].isDir
                    THEN [emitPending(b.S, e, removeDuplicates(b.S.map[e].m_pendingFileChanges))
                            EXCEPT !.map[e].m_pendingFileChanges = <<>>]
                    ELSE b.S,
              cList |-> b.cList, ev |-> b.ev],
             Emit)
      Scanned(a, r) ==
        LET mode == r.S.map[e].m_mode
        IN  Bind(IF mode = "INotifyMode" /\ r.ev = Deleted
                 THEN [S |-> IF ~isRoot(e)
                             THEN Call("addEntry", r.S,
                                       <<NoInst, parentDirectory(e), e, TRUE, WatchDirOnly>>)
                             ELSE r.S,
                       cList |-> a.cList, ev |-> r.ev]
                 ELSE IF mode = "INotifyMode" /\ r.ev = Created /\ r.S.map[e].wd < 0
                 THEN [S |-> Call("addWatch", r.S, <<e>>), cList |-> Append(a.cList, e), ev |-> r.ev]
                 ELSE IF mode = "QFSWatchMode" /\ r.ev = Created
                 THEN [S |-> Call("addWatch", r.S, <<e>>), cList |-> a.cList, ev |-> r.ev]
                 ELSE [S |-> r.S, cList |-> a.cList, ev |-> r.ev],
                 Pending)
      Rest(a) ==
        LET Cont(r) == Scanned(a, r)
        IN  Bind(Call("scanEntry", a.S, <<e>>), Cont)
  IN  Bind(a0, Rest)

RECURSIVE rescanLoop(_, _)
rescanLoop(a0, ps) ==
  LET Rest(a) ==
        IF ps = <<>> THEN a
        ELSE IF Head(ps) \in DOMAIN a.S.map /\ isValid(a.S.map[Head(ps)])
        THEN rescanLoop(rescanOne(a, Head(ps)), Tail(ps))
        ELSE rescanLoop(a, Tail(ps))
  IN  Bind(a0, Rest)

RECURSIVE removeCreated(_, _)
removeCreated(S0, cList) ==
  IF cList = <<>> THEN S0
  ELSE removeCreated(Call("removeEntry", S0,
                          <<NoInst, parentDirectory(Head(cList)), Head(cList)>>),
                     Tail(cList))

slotRescan(S0) ==
  LET Rest(S) ==
        LET Finish(a) ==
              [removeCreated([a.S EXCEPT !.statTimer = IF S.statTimer THEN TRUE ELSE @], a.cList)
                 EXCEPT !.rdTimer = TRUE]
        IN  Bind(rescanLoop([S |-> propagateAll([S EXCEPT !.statTimer = FALSE,
                                                          !.delayRemove = TRUE], PathOrder),
                             cList |-> <<>>],
                            PathOrder),
                 Finish)
  IN  Bind(S0, Rest)

(***************************************************************************)
(* inotifyEventReceived: the handler reads every record the kernel has     *)
(* queued and processes them in order.                                     *)
(***************************************************************************)
RECURSIVE addForClients(_, _, _)
addForClients(S0, clients, tpath) ==
  IF clients = <<>> THEN S0
  ELSE addForClients(Call("addEntry", S0, <<Head(clients).instance, tpath, NoEntry, TRUE,
                                            Head(clients).m_watchModes>>),
                     Tail(clients), tpath)

\* IN_DELETE_SELF
onDeleteSelf(S0, e) ==
  LET Parent(S) ==
        IF isRoot(e) THEN S
        ELSE Call("addEntry",
                  IF entry(S, parentDirectory(e))
                  THEN [S EXCEPT !.map[parentDirectory(e)].dirty = TRUE] ELSE S,
                  <<NoInst, parentDirectory(e), e, TRUE, WatchDirOnly>>)
      Rest(S) ==
        Bind(Call("emitEvent",
                  [S EXCEPT !.map[e].m_status = "NonExistent",
                            !.wdmap = Del(@, S.map[e].wd),
                            !.map[e].wd = -1,
                            !.map[e].m_ctime = invalid_ctime],
                  <<e, Deleted, e>>),
             Parent)
  IN  Bind(S0, Rest)

\* IN_CREATE | IN_MOVED_TO
onCreate(S0, e, tpath, isDir) ==
  LET Rest(S) ==
        IF findSubEntry(S.map[e], tpath)
        THEN IF tpath \in DOMAIN S.map
             THEN [S EXCEPT !.map[tpath].dirty = TRUE, !.rescanTimer = TRUE]
             ELSE [S EXCEPT !.rescanTimer = TRUE]
        ELSE IF S.map[e].isDir /\ S.map[e].m_clients # <<>>
        THEN LET clients == inotifyClientsForFileOrDir(S.map[e], isDir)
                 Pend(S2) == [S2 EXCEPT !.map[e].m_pendingFileChanges = Append(@, e),
                                        !.rescanTimer = TRUE]
                 Emit(S1) == Bind(IF clients # <<>>
                                  THEN Call("emitEvent", S1, <<e, Created, tpath>>) ELSE S1,
                                  Pend)
             IN  Bind(IF isDir THEN addForClients(S, clients, tpath) ELSE S, Emit)
        ELSE S
  IN  Bind(S0, Rest)

\* IN_DELETE | IN_MOVED_FROM
onDelete(S0, e, tpath, isDir) ==
  LET flag == IF isDir THEN "WatchSubDirs" ELSE "WatchFiles"
      Wants(c) == flag \in c.m_watchModes
      Rest(S) ==
        IF S.map[e].isDir /\ S.map[e].m_clients # <<>>
           /\ SelectSeq(S.map[e].m_clients, Wants) # <<>>
        THEN Call("emitEvent", S, <<e, Deleted, tpath>>)
        ELSE S
  IN  Bind(S0, Rest)

\* IN_MODIFY | IN_ATTRIB
onModify(S0, e, tpath, r, wasDirty) ==
  LET Rest(S) ==
        IF S.map[e].isDir /\ S.map[e].m_clients # <<>>
        THEN [S EXCEPT !.map[e].m_pendingFileChanges = Append(@, tpath),
                       !.map[e].dirty = wasDirty \/ (r.name = "" /\ "ATTRIB" \in r.mask)]
        ELSE S
  IN  Bind(S0, Rest)

processEvent(S0, r) ==
  LET Rest(S) ==
        IF r.name # "" /\ isNoisyFile(r.name) THEN S
        ELSE IF r.wd \notin DOMAIN S.wdmap \/ S.wdmap[r.wd] \notin DOMAIN S.map THEN S
        ELSE LET e == S.wdmap[r.wd]
                 wasDirty == S.map[e].dirty
                 tpath == TPath(e, r.name)
                 Timer(S4) == [S4 EXCEPT !.rescanTimer = TRUE]
                 Modify(S3) ==
                   Bind(IF r.mask \cap {"MODIFY", "ATTRIB"} # {}
                        THEN onModify(S3, e, tpath, r, wasDirty) ELSE S3, Timer)
                 Delete(S2) ==
                   Bind(IF r.mask \cap {"DELETE", "MOVED_FROM"} # {}
                        THEN onDelete(S2, e, tpath, r.isdir) ELSE S2, Modify)
                 Create(S1) ==
                   Bind(IF r.mask \cap {"CREATE", "MOVED_TO"} # {}
                        THEN onCreate(S1, e, tpath, r.isdir) ELSE S1, Delete)
             IN  Bind(IF "DELETE_SELF" \in r.mask
                      THEN onDeleteSelf([S EXCEPT !.map[e].dirty = TRUE], e)
                      ELSE [S EXCEPT !.map[e].dirty = TRUE],
                      Create)
  IN  Bind(S0, Rest)

RECURSIVE processAll(_, _)
processAll(S0, q) == IF q = <<>> THEN S0 ELSE processAll(processEvent(S0, Head(q)), Tail(q))

inotifyEventReceived(S0) ==
  LET Rest(S) ==
        IF ~cfg.supports_inotify THEN S
        ELSE processAll([S EXCEPT !.inq = <<>>], S.inq)
  IN  Bind(S0, Rest)

(***************************************************************************)
(* fswEventReceived(path)                                                  *)
(***************************************************************************)
RECURSIVE fswSubEntries(_, _)
fswSubEntries(S0, subs) ==
  IF subs = <<>> THEN S0
  ELSE fswSubEntries(Call("fswEventReceived", S0, <<Head(subs)>>), Tail(subs))

fswEventReceived(S0, path) ==
  LET After(b) ==
        IF b.ev = Deleted
        THEN IF ~isRoot(path)
             THEN Call("addEntry", b.S,
                       <<NoInst, parentDirectory(path), path, TRUE, WatchDirOnly>>)
             ELSE b.S
        ELSE IF b.ev = Created THEN Call("addWatch", b.S, <<path>>)
        ELSE IF b.S.map[path].isDir THEN fswSubEntries(b.S, b.S.map[path].m_entries)
        ELSE fswAddPath(b.S, path)
      Emit(r) ==
        Bind([S |-> IF r.ev # NoChange THEN Call("emitEvent", r.S, <<path, r.ev, path>>)
                    ELSE r.S,
              ev |-> r.ev],
             After)
      Rest(S) ==
        IF path \notin DOMAIN S.map THEN S
        ELSE Bind(Call("scanEntry", [S EXCEPT !.map[path].dirty = TRUE], <<path>>), Emit)
  IN  Bind(S0, Rest)

(***************************************************************************)
(* fswEventReceived's loop "for (Entry *sub_entry : entry->m_entries)"     *)
(* over a list that the calls of the loop may change, in an entry that     *)
(* they may destroy.  The loop holds an iterator into the list and the     *)
(* end it had at the start: what it visits after a removal is not defined. *)
(* The outcomes followed: the elements the list had at the start ("all"),  *)
(* the element behind a removed one left out, the others having moved up   *)
(* ("skip"), the loop at its end after a removal ("stop").                 *)
(***************************************************************************)
IterationOutcomes == {"all", "skip", "stop"}

RECURSIVE fswSubEntriesUnder(_, _, _, _)
fswSubEntriesUnder(S0, path, subs, how) ==
  IF subs = <<>> THEN S0
  ELSE LET Rest(S) ==
             LET removed == path \notin DOMAIN S.map
                            \/ ~InSeq(Head(subs), S.map[path].m_entries)
             IN  IF removed /\ how = "stop" THEN S
                 ELSE IF removed /\ how = "skip" /\ Len(subs) > 1
                 THEN fswSubEntriesUnder(S, path, Tail(Tail(subs)), how)
                 ELSE fswSubEntriesUnder(S, path, Tail(subs), how)
       IN  Bind(Call("fswEventReceived", S0, <<Head(subs)>>), Rest)

\* fswEventReceived(path), its loop ending as how says
fswEventReceivedUnder(S0, path, how) ==
  LET After(b) ==
        IF b.ev = Deleted
        THEN IF ~isRoot(path)
             THEN Call("addEntry", b.S,
                       <<NoInst, parentDirectory(path), path, TRUE, WatchDirOnly>>)
             ELSE b.S
        ELSE IF b.ev = Created THEN Call("addWatch", b.S, <<path>>)
        ELSE IF b.S.map[path].isDir
        THEN fswSubEntriesUnder(b.S, path, b.S.map[path].m_entries, how)
        ELSE fswAddPath(b.S, path)
      Emit(r) ==
        Bind([S |-> IF r.ev # NoChange THEN Call("emitEvent", r.S, <<path, r.ev, path>>)
                    ELSE r.S,
              ev |-> r.ev],
             After)
      Rest(S) ==
        IF path \notin DOMAIN S.map THEN S
        ELSE Bind(Call("scanEntry", [S EXCEPT !.map[path].dirty = TRUE], <<path>>), Emit)
  IN  Bind(S0, Rest)

(***************************************************************************)
(* Suspending and resuming.                                                *)
(***************************************************************************)
Mine(instance, c) == instance = NoInst \/ instance = c.instance

sumCounts(cs, Test(_)) == clientCount(SelectSeq(cs, Test))

\* stopEntryScan(instance, e)
stopEntryScan(S0, instance, e) ==
  LET Still(c) == ~Mine(instance, c) /\ ~c.watchingStopped
      Stop(c) == IF Mine(instance, c) THEN [c EXCEPT !.watchingStopped = TRUE] ELSE c
      Rest(S) ==
        [S EXCEPT !.map[e].m_clients = [i \in 1..Len(@) |-> Stop(@[i])],
                  !.map[e].m_ctime = IF sumCounts(S.map[e].m_clients, Still) = 0
                                     THEN invalid_ctime ELSE @]
  IN  Bind(S0, Rest)

\* restartEntryScan(instance, e, notify)
restartEntryScan(S0, instance, e, notify) ==
  LET Was(c) == ~c.watchingStopped
      New(c) == c.watchingStopped /\ Mine(instance, c)
      Start(c) == IF New(c) THEN [c EXCEPT !.watchingStopped = FALSE] ELSE c
      Emit(r) == Call("emitEvent", r.S, <<e, r.ev, e>>)
      Scan(S2) == Bind(Call("scanEntry", [S2 EXCEPT !.map[e].msecLeft = 0], <<e>>), Emit)
      Rest(S) ==
        LET S1 == [S EXCEPT !.map[e].m_clients = [i \in 1..Len(@) |-> Start(@[i])]]
        IN  IF sumCounts(S.map[e].m_clients, New) = 0 THEN S1
            ELSE IF sumCounts(S.map[e].m_clients, Was) # 0
            THEN Call("emitEvent", S1, <<e, NoChange, e>>)
            ELSE Bind(IF notify THEN S1
                      ELSE IF Exists(e)
                      THEN Call("removeEntry",
                                [S1 EXCEPT !.map[e].m_ctime = StatOf(e).ctime,
                                           !.map[e].m_status = "Normal",
                                           !.map[e].m_nlink = StatOf(e).nlink,
                                           !.map[e].m_ino = dirent[e]],
                                <<NoInst, parentDirectory(e), e>>)
                      ELSE [S1 EXCEPT !.map[e].m_ctime = invalid_ctime,
                                      !.map[e].m_status = "NonExistent",
                                      !.map[e].m_nlink = 0],
                      Scan)
  IN  Bind(S0, Rest)

RECURSIVE stopAll(_, _, _)
stopAll(S0, instance, ps) ==
  LET Rest(S) ==
        IF ps = <<>> THEN S
        ELSE stopAll(IF Head(ps) \in DOMAIN S.map
                     THEN Call("stopEntryScan", S, <<instance, Head(ps)>>)
                     ELSE S,
                     instance, Tail(ps))
  IN  Bind(S0, Rest)

\* KDirWatchPrivate::stopScan(instance)
stopScan(S, instance) == stopAll(S, instance, PathOrder)

\* resetList
resetList(S0, instance, skippedToo) ==
  LET Reset(c) == IF ~c.watchingStopped \/ skippedToo THEN [c EXCEPT !.pending = NoChange]
                  ELSE c
      Rest(S) ==
        [S EXCEPT !.map = [p \in DOMAIN S.map |->
             [S.map[p] EXCEPT !.m_clients = [i \in 1..Len(@) |-> Reset(@[i])]]]]
  IN  Bind(S0, Rest)

RECURSIVE restartAll(_, _, _, _)
restartAll(S0, instance, notify, ps) ==
  LET Rest(S) ==
        IF ps = <<>> THEN S
        ELSE restartAll(IF Head(ps) \in DOMAIN S.map
                        THEN Call("restartEntryScan", S, <<instance, Head(ps), notify>>) ELSE S,
                        instance, notify, Tail(ps))
  IN  Bind(S0, Rest)

\* KDirWatchPrivate::startScan(instance, notify, skippedToo)
startScan(S, instance, notify, skippedToo) ==
  restartAll(IF ~notify THEN resetList(S, instance, skippedToo) ELSE S,
             instance, notify, PathOrder)

(***************************************************************************)
(* The methods, by name.                                                   *)
(***************************************************************************)
Call(op, S0, args) ==
  LET Run(c) ==
        CASE c.op = "useStat" -> useStat(c.S, c.a[1])
          [] c.op = "useINotify" -> useINotify(c.S, c.a[1])
          [] c.op = "useQFSWatch" -> useQFSWatch(c.S, c.a[1])
          [] c.op = "addWatch" -> addWatch(c.S, c.a[1])
          [] c.op = "addEntry" -> addEntry(c.S, c.a[1], c.a[2], c.a[3], c.a[4], c.a[5])
          [] c.op = "removeWatch" -> removeWatch(c.S, c.a[1])
          [] c.op = "removeEntry" -> removeEntry(c.S, c.a[1], c.a[2], c.a[3])
          [] c.op = "emitEvent" -> emitEvent(c.S, c.a[1], c.a[2], c.a[3])
          [] c.op = "scanEntry" -> scanEntry(c.S, c.a[1])
          [] c.op = "slotRemoveDelayed" -> slotRemoveDelayed(c.S)
          [] c.op = "slotRescan" -> slotRescan(c.S)
          [] c.op = "inotifyEventReceived" -> inotifyEventReceived(c.S)
          [] c.op = "fswEventReceivedUnder" -> fswEventReceivedUnder(c.S, c.a[1], c.a[2])
          [] c.op = "fswEventReceived" -> fswEventReceived(c.S, c.a[1])
          [] c.op = "stopEntryScan" -> stopEntryScan(c.S, c.a[1], c.a[2])
          [] c.op = "restartEntryScan" -> restartEntryScan(c.S, c.a[1], c.a[2], c.a[3])
          [] c.op = "stopScan" -> stopScan(c.S, c.a[1])
          [] c.op = "startScan" -> startScan(c.S, c.a[1], c.a[2], c.a[3])
          [] c.op = "removeEntries" -> removeEntries(c.S, c.a[1])
  IN  Bind([op |-> op, S |-> S0, a |-> args], Run)

(***************************************************************************)
(* The KDirWatch facade: one action per call an application makes.         *)
(* hist.reg counts, for an instance and a path, the application's addDir   *)
(* and addFile calls minus its removeDir and removeFile calls.             *)
(***************************************************************************)
EnvUnchanged == UNCHANGED <<dirent, inode, gone, cfg>>

\* a call of the application, or a handler of the event loop, runs when no earlier call
\* is still running
ApiCall ==
  /\ ~looping
  /\ budget.calls > 0
  /\ budget' = [budget EXCEPT !.calls = @ - 1]

\* the entries of the KDirWatchPrivate that the instance's d points to
EntriesOf(instance) ==
  IF d[instance] = "here" THEN m_mapEntries
  ELSE IF d[instance] = "there" THEN other.map ELSE <<>>

\* KDirWatch::contains (which reads d->entry(path) without testing d; FALSE stands for
\* the call with d null)
contains(instance, p) ==
  /\ p \in DOMAIN EntriesOf(instance)
  /\ findInstance(EntriesOf(instance)[p].m_clients, instance) # 0

\* "if (d) d->method(arguments)": the call changes the KDirWatchPrivate d points to, and
\* nothing when d is null.  The queue of calls and the signals delivered are those of the
\* instances, whichever engine queues for them.
OnEngine(instance, op, args) ==
  IF d[instance] = "here"
  THEN /\ \E S \in {Call(op, Cur, args)} : Commit(S)
       /\ other' = other
  ELSE IF d[instance] = "there"
  THEN /\ \E S \in {Call(op, [other EXCEPT !.evq = evq, !.got = got], args)} :
            /\ other' = [S EXCEPT !.evq = <<>>, !.got = <<>>]
            /\ evq' = S.evq
            /\ got' = S.got
       /\ UNCHANGED <<m_mapEntries, removeList, delayRemove, m_inotify_wd_to_entry,
                      statEntries, freq, m_statRescanTimer, rescan_timer,
                      removeDelayedTimer, kwatch, nextWd, inq, fsw, looping>>
  ELSE UNCHANGED <<m_mapEntries, removeList, delayRemove, m_inotify_wd_to_entry,
                   statEntries, freq, m_statRescanTimer, rescan_timer, removeDelayedTimer,
                   kwatch, nextWd, inq, fsw, looping, evq, got, other>>

\* KDirWatch::addDir(path, watchModes)
AddDir(instance, p, watchModes) ==
  /\ ApiCall
  /\ hist.reg[<<instance, p>>] < MaxCount
  /\ OnEngine(instance, "addEntry", <<instance, p, NoEntry, TRUE, watchModes>>)
  /\ hist' = [hist EXCEPT !.reg[<<instance, p>>] = @ + 1,
                          !.adds[<<instance, p>>] = @ + 1,
                          !.deep = IF watchModes # WatchDirOnly THEN @ \cup {<<instance, p>>}
                                   ELSE @]
  /\ EnvUnchanged /\ UNCHANGED <<fswq, isStopped, d, m_referencesObjects>>

\* KDirWatch::addFile(path)
AddFile(instance, p) ==
  /\ ApiCall
  /\ hist.reg[<<instance, p>>] < MaxCount
  /\ OnEngine(instance, "addEntry", <<instance, p, NoEntry, FALSE, WatchDirOnly>>)
  /\ hist' = [hist EXCEPT !.reg[<<instance, p>>] = @ + 1, !.adds[<<instance, p>>] = @ + 1]
  /\ EnvUnchanged /\ UNCHANGED <<fswq, isStopped, d, m_referencesObjects>>

\* KDirWatch::removeDir(path) and KDirWatch::removeFile(path)
RemoveDir(instance, p) ==
  /\ ApiCall
  /\ OnEngine(instance, "removeEntry", <<instance, p, NoEntry>>)
  /\ hist' = [hist EXCEPT !.reg[<<instance, p>>] = IF @ > 0 THEN @ - 1 ELSE 0]
  /\ EnvUnchanged /\ UNCHANGED <<fswq, isStopped, d, m_referencesObjects>>

\* KDirWatch::stopDirScan(path)
StopDirScan(instance, p) ==
  /\ ApiCall
  /\ p \in DOMAIN EntriesOf(instance) /\ EntriesOf(instance)[p].isDir
  /\ OnEngine(instance, "stopEntryScan", <<instance, p>>)
  /\ EnvUnchanged /\ UNCHANGED <<fswq, isStopped, hist, d, m_referencesObjects>>

\* KDirWatch::restartDirScan(path)
RestartDirScan(instance, p) ==
  /\ ApiCall
  /\ p \in DOMAIN EntriesOf(instance) /\ EntriesOf(instance)[p].isDir
  /\ OnEngine(instance, "restartEntryScan", <<instance, p, FALSE>>)
  /\ hist' = [hist EXCEPT !.restarted = TRUE]
  /\ EnvUnchanged /\ UNCHANGED <<fswq, isStopped, d, m_referencesObjects>>

\* KDirWatch::stopScan(); _isStopped of the other thread's engine is not followed, and
\* the call is left out for an instance that points there
StopScan(instance) ==
  /\ ApiCall
  /\ d[instance] # "there"
  /\ OnEngine(instance, "stopScan", <<instance>>)
  /\ isStopped' = IF d[instance] = "here" THEN TRUE ELSE isStopped
  /\ EnvUnchanged /\ UNCHANGED <<fswq, hist, d, m_referencesObjects>>

\* KDirWatch::startScan(notify, skippedToo); likewise
StartScan(instance, notify, skippedToo) ==
  /\ ApiCall
  /\ d[instance] # "there"
  /\ isStopped' = IF d[instance] = "here" THEN FALSE ELSE isStopped
  /\ OnEngine(instance, "startScan", <<instance, notify, skippedToo>>)
  /\ hist' = [hist EXCEPT !.restarted = TRUE]
  /\ EnvUnchanged /\ UNCHANGED <<fswq, d, m_referencesObjects>>

(***************************************************************************)
(* The event loop: timers, the inotify socket notifier, the                *)
(* QFileSystemWatcher signals and the queued signal deliveries.            *)
(***************************************************************************)
\* rescan_timer (single shot) times out
RescanTimeout ==
  /\ ~looping
  /\ rescan_timer
  /\ \E S \in {Call("slotRescan", [Cur EXCEPT !.rescanTimer = FALSE], <<>>)} : Commit(S)
  /\ EnvUnchanged /\ UNCHANGED <<fswq, isStopped, budget, hist, d, other,
                             m_referencesObjects>>

\* m_statRescanTimer times out
StatTimeout ==
  /\ ~looping
  /\ m_statRescanTimer
  /\ budget.polls > 0
  /\ budget' = [budget EXCEPT !.polls = @ - 1]
  /\ \E S \in {Call("slotRescan", Cur, <<>>)} : Commit(S)
  /\ hist' = [hist EXCEPT !.polled = TRUE]
  /\ EnvUnchanged /\ UNCHANGED <<fswq, isStopped, d, other,
                             m_referencesObjects>>

\* QTimer::singleShot(0, this, &KDirWatchPrivate::slotRemoveDelayed) times out
RemoveDelayedTimeout ==
  /\ ~looping
  /\ removeDelayedTimer
  /\ \E S \in {Call("slotRemoveDelayed", Cur, <<>>)} : Commit(S)
  /\ EnvUnchanged /\ UNCHANGED <<fswq, isStopped, budget, hist, d, other,
                             m_referencesObjects>>

\* the socket notifier of the inotify descriptor is activated
InotifyActivated ==
  /\ ~looping
  /\ inq # <<>>
  /\ \E S \in {Call("inotifyEventReceived", Cur, <<>>)} : Commit(S)
  /\ EnvUnchanged /\ UNCHANGED <<fswq, isStopped, budget, hist, d, other,
                             m_referencesObjects>>

\* QFileSystemWatcher::directoryChanged / fileChanged
FswSignal(p) ==
  /\ ~looping
  /\ p \in fswq
  /\ fswq' = fswq \ {p}
  /\ \E S \in {Call("fswEventReceived", Cur, <<p>>)} : Commit(S)
  /\ EnvUnchanged /\ UNCHANGED <<isStopped, budget, hist, d, other,
                             m_referencesObjects>>

\* KDirWatchPrivate::unref(watch): the list of the engine without the instance (the
\* engine is destroyed when the list is empty; the callers say what that takes along)
unref(refs, engine, watch) == [refs EXCEPT ![engine] = @ \ {watch}]

\* KDirWatch::event for QEvent::ThreadChange (QObject::moveToThread(), called in the
\* thread of the engine): the instance leaves the engine and its d is null until the
\* call queued here runs.  unref() destroys a KDirWatchPrivate that no instance refers
\* to; the move is followed while another instance keeps the engine alive.
MoveToThread(instance) ==
  /\ ApiCall
  /\ d[instance] = "here"
  /\ \E i \in Instances \ {instance} : d[i] = "here"
  /\ \E S \in {Call("removeEntries", Cur, <<instance>>)} :
       Commit([S EXCEPT !.evq = Append(@, [inst |-> instance, sig |-> "createPrivate",
                                            path |-> <<>>])])
  /\ d' = [d EXCEPT ![instance] = "null"]
  /\ m_referencesObjects' = unref(m_referencesObjects, "here", instance)
  /\ EnvUnchanged /\ UNCHANGED <<fswq, isStopped, hist, other>>

\* the delivery of one queued call: the lambda calls setDeleted, setCreated or
\* setDirty of the instance, which emits the signal; or it is the lambda of
\* KDirWatch::event, which sets d to the KDirWatchPrivate of the instance's new thread
Deliver ==
  /\ ~looping
  /\ evq # <<>>
  /\ IF Head(evq).sig = "createPrivate"
     THEN d' = [d EXCEPT ![Head(evq).inst] = "there"] /\ got' = got
     ELSE got' = Append(got, Head(evq)) /\ d' = d
  /\ evq' = Tail(evq)
  /\ UNCHANGED <<dirent, inode, gone, kwatch, nextWd, inq, fsw, fswq, cfg, m_mapEntries,
                 removeList, delayRemove, m_inotify_wd_to_entry, statEntries, freq,
                 m_statRescanTimer, rescan_timer, removeDelayedTimer, isStopped, looping,
                 other, m_referencesObjects, budget, hist>>

(***************************************************************************)
(* Initial states: KDirWatchPrivate as its constructor leaves it, over a   *)
(* filesystem in which / exists, /a is a directory or missing and /a/b and *)
(* /a/t are files or missing.                                              *)
(***************************************************************************)
Methods == {"INotify", "QFSWatch", "Stat"}

InitFiles(withA, withB, withT) ==
  /\ dirent = [p \in Paths |-> IF p = Root THEN 1
                               ELSE IF p = PA /\ withA THEN 2
                               ELSE IF p = PB /\ withA /\ withB THEN 3
                               ELSE IF p = PT /\ withA /\ withT THEN 4
                               ELSE 0]
  /\ inode = [i \in Inodes |->
                IF i = 1 \/ (i = 2 /\ withA) THEN [kind |-> "dir", nlink |-> 1, ctime |-> 1]
                ELSE IF (i = 3 /\ withA /\ withB) \/ (i = 4 /\ withA /\ withT)
                THEN [kind |-> "file", nlink |-> 1, ctime |-> 1]
                ELSE FreeInode]
  /\ gone = [p \in Paths |-> [ino |-> 0, ctime |-> 1]]

InitFs(withA, withB) == InitFiles(withA, withB, FALSE)

\* a KDirWatchPrivate as its constructor leaves it
NewPrivate ==
  [map |-> <<>>, removeList |-> {}, delayRemove |-> FALSE, wdmap |-> <<>>,
   statEntries |-> 0, freq |-> InitialFreq, statTimer |-> FALSE, rescanTimer |-> FALSE,
   rdTimer |-> FALSE, evq |-> <<>>, got |-> <<>>, kwatch |-> <<>>, nextWd |-> 1,
   inq |-> <<>>, fsw |-> <<>>, looping |-> FALSE]

\* the engine after construction, in an environment c: the methods and the polling
\* intervals the environment variables name, whether inotify_init succeeded, whether
\* all paths are on NFS or which ones are, and the kernel's limit on the user's inotify
\* watches
InitEngineCfg(c) ==
  /\ cfg = c
  /\ kwatch = <<>> /\ nextWd = 1 /\ inq = <<>>
  /\ fsw = <<>> /\ fswq = {}
  /\ m_mapEntries = <<>>
  /\ removeList = {}
  /\ delayRemove = FALSE
  /\ m_inotify_wd_to_entry = <<>>
  /\ statEntries = 0
  /\ freq = InitialFreq
  /\ m_statRescanTimer = FALSE
  /\ rescan_timer = FALSE
  /\ removeDelayedTimer = FALSE
  /\ looping = FALSE
  /\ isStopped = FALSE
  /\ evq = <<>>
  /\ d = [i \in Instances |-> "here"]
  /\ other = NewPrivate
  /\ m_referencesObjects = [e \in {"here", "there"} |->
                              IF e = "here" THEN Instances ELSE {}]
  /\ got = <<>>
  /\ hist = [reg |-> [x \in Instances \X AllPaths |-> 0],
             adds |-> [x \in Instances \X AllPaths |-> 0], deep |-> {}, ops |-> <<>>,
             marks |-> <<>>, polled |-> TRUE, restarted |-> FALSE]

\* the default environment: NFS method Stat, inotify available, local paths, and a
\* limit on the watches that is never reached
InitEngine(method) ==
  InitEngineCfg([method |-> method, nfsMethod |-> "Stat", supports_inotify |-> TRUE,
                 nfs |-> FALSE, mount |-> {}, poll |-> m_PollInterval,
                 nfsPoll |-> m_nfsPollInterval, max_user_watches |-> MaxIno])

InitBudget(fs, calls, polls) == budget = [fs |-> fs, calls |-> calls, polls |-> polls]

\* the steps of the event loop
Loop ==
  \/ RescanTimeout
  \/ StatTimeout
  \/ RemoveDelayedTimeout
  \/ InotifyActivated
  \/ \E p \in Paths : FswSignal(p)
  \/ Deliver

(***************************************************************************)
(* Registration: instance w1 adds and removes /a and /a/b, instance w2     *)
(* adds and removes /a/b, while /a/b is created and removed.               *)
(***************************************************************************)
MaxPolls == 2

Init ==
  /\ \E method \in Methods : InitEngine(method)
  /\ \E withB \in BOOLEAN : InitFs(TRUE, withB)
  /\ InitBudget(MaxFsOps, MaxCalls, MaxPolls)

Next ==
  \/ \E wm \in {WatchDirOnly, WatchFiles} : AddDir("w1", PA, wm)
  \/ \E i \in Instances : AddFile(i, PB)
  \/ RemoveDir("w1", PA)
  \/ \E i \in Instances : RemoveDir(i, PB)
  \/ CreateNewFile(PB)
  \/ Remove(PB)
  \/ RescanTimeout
  \/ StatTimeout
  \/ RemoveDelayedTimeout
  \/ InotifyActivated
  \/ \E p \in Paths : FswSignal(p)
  \/ Deliver

Spec == Init /\ [][Next]_vars

(***************************************************************************)
(* Properties of registration.                                             *)
(***************************************************************************)
IsPrefix(dir, p) == Len(dir) < Len(p) /\ SubSeq(p, 1, Len(dir)) = dir

\* addEntry registered the instance for p when the instance added a directory above p
\* with WatchFiles or WatchSubDirs
Implicit(instance, p) == \E x \in hist.deep : x[1] = instance /\ IsPrefix(x[2], p)

\* an entry without clients and sub-entries is gone, or waits for the sweep
EmptyEntriesGo ==
  \A p \in DOMAIN m_mapEntries :
    ~isValid(m_mapEntries[p]) => p \in removeList /\ delayRemove /\ removeDelayedTimer

\* C1 (as amended): an instance that has added P more often than it has removed it is a
\* client of P's entry; when it has removed P as often as it added it, and has not added
\* a directory above P with WatchFiles or WatchSubDirs, it is no client of P's entry;
\* and an entry left without clients and sub-entries is destroyed, at once or by the
\* delayed-removal sweep.
C1_AddRemoveBalance ==
  /\ \A i \in Instances, p \in Paths :
        /\ hist.reg[<<i, p>>] > 0 => contains(i, p)
        /\ hist.reg[<<i, p>>] = 0 /\ ~Implicit(i, p) => ~contains(i, p)
  /\ EmptyEntriesGo

\* C1 as stated: after k >= 1 adds of P and k removes of P the instance is no client of P
C1_AsStated ==
  /\ \A i \in Instances, p \in Paths :
        /\ hist.reg[<<i, p>>] > 0 => contains(i, p)
        /\ hist.reg[<<i, p>>] = 0 /\ hist.adds[<<i, p>>] > 0 => ~contains(i, p)
  /\ EmptyEntriesGo

\* w1 added /a/b twice and removed it twice; the entry is destroyed
C1_Witness ==
  /\ hist.adds[<<"w1", PB>>] = 2
  /\ hist.reg[<<"w1", PB>>] = 0
  /\ ~contains("w1", PB)
  /\ PB \notin DOMAIN m_mapEntries

\* C5: a step that leaves delay_remove set (the rescan pass, and every call until the
\* sweep) destroys no entry: the entries of the table stay in the table, and one that
\* has become empty is on the removal list with the sweep pending; a rescan pass skips
\* the entries that are empty (it may mark them dirty, it does not scan them); only
\* slotRemoveDelayed, which clears delay_remove, destroys entries.
C5_NoDestroyWhileDelayed ==
  [][delayRemove' =>
       /\ DOMAIN m_mapEntries \subseteq DOMAIN m_mapEntries'
       /\ \A p \in DOMAIN m_mapEntries' : ~isValid(m_mapEntries'[p]) => p \in removeList'
       /\ RescanTimeout \/ StatTimeout =>
            \A p \in DOMAIN m_mapEntries :
              ~isValid(m_mapEntries[p]) /\ ~isValid(m_mapEntries'[p])
                => [m_mapEntries'[p] EXCEPT !.dirty = FALSE]
                     = [m_mapEntries[p] EXCEPT !.dirty = FALSE]
       /\ removeDelayedTimer']_vars

\* a rescan pass has promoted /a/b, which took /a/b out of the placeholder /a: /a is
\* empty, on the removal list and still in the table
C5_Witness ==
  /\ delayRemove
  /\ PA \in removeList
  /\ PA \in DOMAIN m_mapEntries
  /\ ~isValid(m_mapEntries[PA])
  /\ PB \in DOMAIN m_mapEntries /\ m_mapEntries[PB].m_status = "Normal"
  /\ hist.ops = <<<<"create", PB>>>>

NoDuplicates ==
  /\ \A p \in DOMAIN m_mapEntries :
        LET cs == m_mapEntries[p].m_clients
        IN  /\ \A i, j \in 1..Len(cs) : cs[i].instance = cs[j].instance => i = j
            /\ \A i \in 1..Len(cs) : cs[i].count >= 1
  /\ \A p \in DOMAIN m_mapEntries :
        Cardinality({wd \in DOMAIN m_inotify_wd_to_entry : m_inotify_wd_to_entry[wd] = p}) <= 1
  /\ \A wd1, wd2 \in DOMAIN kwatch : kwatch[wd1] = kwatch[wd2] => wd1 = wd2
  /\ statEntries = Cardinality({p \in DOMAIN m_mapEntries : m_mapEntries[p].m_mode = "StatMode"})

\* C10 (as amended): an entry has at most one Client record for an instance, with a count
\* of at least 1; the count is the instance's adds minus removes of the path unless the
\* instance added a directory above the path with WatchFiles or WatchSubDirs; an entry
\* has at most one inotify watch and is counted at most once among the polled entries.
\* (m_mapEntries is a map: a path has at most one entry.)
C10_OneClientRecord ==
  /\ NoDuplicates
  /\ \A p \in DOMAIN m_mapEntries :
        LET cs == m_mapEntries[p].m_clients
        IN  \A i \in 1..Len(cs) :
              ~Implicit(cs[i].instance, p) => cs[i].count = hist.reg[<<cs[i].instance, p>>]

\* C10 as stated: every Client record's count is the instance's adds minus removes
C10_AsStated ==
  /\ NoDuplicates
  /\ \A p \in DOMAIN m_mapEntries :
        LET cs == m_mapEntries[p].m_clients
        IN  \A i \in 1..Len(cs) : cs[i].count = hist.reg[<<cs[i].instance, p>>]

\* w1 has added /a/b twice: one entry, one Client record, count 2
C10_Witness ==
  /\ hist.reg[<<"w1", PB>>] = 2
  /\ PB \in DOMAIN m_mapEntries
  /\ Len(m_mapEntries[PB].m_clients) = 1
  /\ m_mapEntries[PB].m_clients[1].count = 2

(***************************************************************************)
(* Suspending: w1 watches the directory /a, alone or beside w2, stops and  *)
(* restarts (restartDirScan, or startScan without notification); /a/b is   *)
(* created or removed only while w1 is stopped on /a.                      *)
(***************************************************************************)
StoppedOn(instance, p) ==
  /\ contains(instance, p)
  /\ m_mapEntries[p].m_clients[findInstance(m_mapEntries[p].m_clients, instance)].watchingStopped

InitStop ==
  /\ \E method \in Methods : InitEngine(method)
  /\ \E withB \in BOOLEAN : InitFs(TRUE, withB)
  /\ InitBudget(MaxFsOps, MaxCalls, MaxPolls)

NextStop ==
  \/ \E wm \in {WatchDirOnly, WatchFiles} : ~contains("w1", PA) /\ AddDir("w1", PA, wm)
  \/ ~contains("w2", PA) /\ AddDir("w2", PA, WatchDirOnly)
  \/ StopDirScan("w1", PA)
  \/ StopScan("w1")
  \/ RestartDirScan("w1", PA)
  \/ \E skippedToo \in BOOLEAN : StartScan("w1", FALSE, skippedToo)
  \/ StoppedOn("w1", PA) /\ CreateNewFile(PB)
  \/ StoppedOn("w1", PA) /\ Remove(PB)
  \/ Loop

SpecStop == InitStop /\ [][NextStop]_vars

\* C2: no signal from /a's entry reaches w1, every change having been made while w1 was
\* stopped on /a (a signal about /a/b comes from /a/b's own entry when w1 is a client of
\* it, which addDir(/a, WatchFiles) makes it when the files are watched one by one)
C2_NothingFromStoppedInterval ==
  \A i \in 1..Len(got) :
    got[i].inst = "w1" => got[i].path = PB /\ contains("w1", PB)

\* C3: a signal is delivered only to an instance that is, at the delivery, a client of
\* the entry the signal comes from (the entry of the signalled path or of its directory):
\* nothing is delivered to an instance after its removal from the entry
C3_NoDeliveryAfterRemoval ==
  [][got' # got =>
       LET s == Head(evq)
       IN  contains(s.inst, s.path) \/ contains(s.inst, parentDirectory(s.path))]_vars

(***************************************************************************)
(* Watching a path that does not exist: /a/b is registered as a file or as *)
(* a directory while it is missing (/a existing or missing too), then /a   *)
(* and /a/b are created.                                                   *)
(***************************************************************************)
Count(s, x) == Cardinality({i \in 1..Len(s) : s[i] = x})

\* nothing is left to do for the event loop, and an entry that is polled has been
\* polled since the last change of the filesystem
Quiet ==
  /\ inq = <<>>
  /\ fswq = {}
  /\ ~rescan_timer
  /\ evq = <<>>
  /\ statEntries > 0 => hist.polled

InitCreate ==
  /\ \E method \in Methods : InitEngine(method)
  /\ \E withA \in BOOLEAN : InitFs(withA, FALSE)
  /\ InitBudget(MaxFsOps + 1, MaxCalls, MaxPolls)

NextCreate ==
  \/ \E i \in Instances : ~Exists(PB) /\ ~contains(i, PB) /\ AddFile(i, PB)
  \/ \E i \in Instances : ~Exists(PB) /\ ~contains(i, PB) /\ AddDir(i, PB, WatchDirOnly)
  \/ MkdirNew(PA)
  \/ CreateNewFile(PB)
  \/ MkdirNew(PB)
  \/ Loop

SpecCreate == InitCreate /\ [][NextCreate]_vars

\* C4: an instance that registered /a/b while it did not exist is never signalled
\* Created(/a/b) twice, and once /a/b has been created and the event loop has nothing
\* left to do, it has been signalled Created(/a/b) exactly once
C4_OneCreated ==
  \A i \in Instances :
    LET n == Count(got, [inst |-> i, sig |-> "created", path |-> PB])
    IN  /\ n <= 1
        /\ Exists(PB) /\ Quiet /\ hist.reg[<<i, PB>>] > 0 => n = 1


(***************************************************************************)
(* Replacing a watched file: w1 watches the file /a/b; /a/b is replaced by *)
(* an object with another inode number (removed and created again, /a/t    *)
(* renamed over it, or removed and /a/t linked to its name), once or       *)
(* twice, and then appended to.  A replacement and the append start when   *)
(* the event loop has nothing left to do.                                  *)
(***************************************************************************)
LastOp == hist.ops[Len(hist.ops)]

\* /a/b holds the object its last replacement put there
Replaced ==
  /\ hist.ops # <<>>
  /\ LastOp \in {<<"create", PB>>, <<"rename", PB>>, <<"link", PB>>}

\* Len(got) when the last replacement of /a/b began
ReplaceMark ==
  IF LastOp = <<"rename", PB>> /\ (Len(hist.ops) = 1 \/ hist.ops[Len(hist.ops) - 1] # <<"remove", PB>>)
  THEN hist.marks[Len(hist.marks)]
  ELSE hist.marks[Len(hist.marks) - 1]

SigAt(i, inst, sig, p) == got[i] = [inst |-> inst, sig |-> sig, path |-> p]

InitReplace ==
  /\ \E method \in Methods : InitEngine(method)
  /\ \E withT \in BOOLEAN : InitFiles(TRUE, TRUE, withT)
  /\ InitBudget(MaxFsOps + 4, MaxCalls, MaxPolls + 2)

NextReplace ==
  \/ hist.ops = <<>> /\ ~contains("w1", PB) /\ AddFile("w1", PB)
  \/ contains("w1", PB) /\ Quiet /\ Remove(PB)
  \/ hist.ops # <<>> /\ LastOp = <<"remove", PB>> /\ CreateFile(PB) /\ dirent'[PB] # gone[PB].ino
  \/ hist.ops # <<>> /\ LastOp = <<"remove", PB>> /\ Link(PT, PB)
  \/ contains("w1", PB) /\ (Quiet \/ (hist.ops # <<>> /\ LastOp = <<"remove", PB>>))
       /\ Rename(PT, PB)
  \/ Replaced /\ Quiet /\ AppendToFile(PB)
  \/ Loop

SpecReplace == InitReplace /\ [][NextReplace]_vars

\* C6: once /a/b has been replaced and the event loop has nothing left to do, w1 has been
\* signalled, since the replacement began, Deleted(/a/b) and later Created(/a/b), or
\* Changed(/a/b); and once the new /a/b has been appended to, Changed(/a/b) since the
\* append
C6_ReplacementSeen ==
  Quiet /\ contains("w1", PB) /\ hist.ops # <<>> =>
    /\ Replaced =>
         \/ \E i, j \in (ReplaceMark + 1)..Len(got) :
              i < j /\ SigAt(i, "w1", "deleted", PB) /\ SigAt(j, "w1", "created", PB)
         \/ \E i \in (ReplaceMark + 1)..Len(got) : SigAt(i, "w1", "dirty", PB)
    /\ LastOp = <<"append", PB>> =>
         \E i \in (hist.marks[Len(hist.marks)] + 1)..Len(got) : SigAt(i, "w1", "dirty", PB)


(***************************************************************************)
(* Children of a watched directory: w1 watches /a with WatchFiles, w2      *)
(* watches /a with WatchDirOnly, and the file /a/b is created.             *)
(***************************************************************************)
InitChild ==
  /\ \E method \in Methods : InitEngine(method)
  /\ InitFs(TRUE, FALSE)
  /\ InitBudget(MaxFsOps, MaxCalls, MaxPolls)

NextChild ==
  \/ hist.ops = <<>> /\ ~contains("w1", PA) /\ AddDir("w1", PA, WatchFiles)
  \/ hist.ops = <<>> /\ ~contains("w2", PA) /\ AddDir("w2", PA, WatchDirOnly)
  \/ CreateNewFile(PB)
  \/ Loop

SpecChild == InitChild /\ [][NextChild]_vars

Got(inst, sig, p) == Count(got, [inst |-> inst, sig |-> sig, path |-> p]) > 0

\* C7: w2, which watches /a with WatchDirOnly, is never signalled Created(/a/b); and once
\* /a/b has been created and the event loop has nothing left to do, every instance that
\* watches /a has been signalled Changed(/a), and w1, which watches /a with WatchFiles,
\* has been signalled Created(/a/b) when the method is inotify
C7_ChildRouting ==
  /\ ~Got("w2", "created", PB)
  /\ Quiet /\ hist.ops # <<>> =>
       /\ \A i \in Instances : contains(i, PA) => Got(i, "dirty", PA)
       /\ contains("w1", PA) /\ cfg.method = "INotify" => Got("w1", "created", PB)

(***************************************************************************)
(* Restarting: w1 watches the file /a/b or the directory /a (w2 may watch  *)
(* /a too), stops, and restarts with restartDirScan or startScan; after    *)
(* the restart, the event loop having nothing left to do, /a/b is appended *)
(* to, or /a/t is created in /a.                                           *)
(***************************************************************************)
Watching(instance, p) == contains(instance, p) /\ ~StoppedOn(instance, p)

InitRestart ==
  /\ \E method \in Methods : InitEngine(method)
  /\ InitFs(TRUE, TRUE)
  /\ InitBudget(MaxFsOps, MaxCalls, MaxPolls)

NextRestart ==
  \/ ~contains("w1", PA) /\ ~contains("w1", PB) /\ AddFile("w1", PB)
  \/ ~contains("w1", PA) /\ ~contains("w1", PB) /\ AddDir("w1", PA, WatchDirOnly)
  \/ ~contains("w2", PA) /\ ~hist.restarted /\ AddDir("w2", PA, WatchDirOnly)
  \/ ~hist.restarted /\ Watching("w1", PA) /\ StopDirScan("w1", PA)
  \/ ~hist.restarted /\ (Watching("w1", PA) \/ Watching("w1", PB)) /\ StopScan("w1")
  \/ StoppedOn("w1", PA) /\ RestartDirScan("w1", PA)
  \/ \E notify, skippedToo \in BOOLEAN :
       (StoppedOn("w1", PA) \/ StoppedOn("w1", PB)) /\ StartScan("w1", notify, skippedToo)
  \/ hist.restarted /\ Quiet /\ Watching("w1", PB) /\ AppendToFile(PB)
  \/ hist.restarted /\ Quiet /\ Watching("w1", PA) /\ CreateNewFile(PT)
  \/ Loop

SpecRestart == InitRestart /\ [][NextRestart]_vars

\* C8: w1 having stopped and restarted, once the path it watches has been changed and
\* the event loop has nothing left to do, w1 has been signalled Changed for that path
\* since the change
C8_ChangeAfterRestart ==
  Quiet /\ hist.ops # <<>> =>
    \A p \in {PA, PB} :
      Watching("w1", p) =>
        \E i \in (hist.marks[Len(hist.marks)] + 1)..Len(got) : SigAt(i, "w1", "dirty", p)

(***************************************************************************)
(* Moving a file onto a watched file: w1 watches the directory /a and the  *)
(* file /a/b; /a/t is created if it does not exist, /a/b is removed and    *)
(* /a/t is renamed to /a/b; when the event loop has nothing left to do,    *)
(* /a/b is appended to.                                                    *)
(***************************************************************************)
\* the index in hist.ops of the removal of /a/b that /a/t was then renamed onto, or 0
MoveAt ==
  LET ks == {k \in 1..(Len(hist.ops) - 1) :
               hist.ops[k] = <<"remove", PB>> /\ hist.ops[k + 1] = <<"rename", PB>>}
  IN  IF ks = {} THEN 0 ELSE CHOOSE k \in ks : TRUE

InitMove ==
  /\ \E method \in Methods : InitEngine(method)
  /\ \E withT \in BOOLEAN : InitFiles(TRUE, TRUE, withT)
  /\ InitBudget(MaxFsOps + 3, MaxCalls, MaxPolls + 2)

NextMove ==
  \/ hist.ops = <<>> /\ ~contains("w1", PA) /\ AddDir("w1", PA, WatchDirOnly)
  \/ hist.ops = <<>> /\ ~contains("w1", PB) /\ AddFile("w1", PB)
  \/ hist.ops = <<>> /\ contains("w1", PA) /\ contains("w1", PB) /\ CreateNewFile(PT)
  \/ contains("w1", PA) /\ contains("w1", PB) /\ Exists(PT) /\ MoveAt = 0
       /\ (hist.ops # <<>> => LastOp # <<"remove", PB>>) /\ Remove(PB)
  \/ hist.ops # <<>> /\ LastOp = <<"remove", PB>> /\ Rename(PT, PB)
  \/ MoveAt # 0 /\ Quiet /\ AppendToFile(PB)
  \/ Loop

SpecMove == InitMove /\ [][NextMove]_vars

\* C9: once /a/b has been removed and /a/t renamed onto it, and the event loop has
\* nothing left to do, w1 has been signalled Changed(/a) since the removal; and once the
\* new /a/b has been appended to, Changed(/a/b) since the append
C9_WatchSurvivesMove ==
  Quiet /\ MoveAt # 0 =>
    /\ \E i \in (hist.marks[MoveAt] + 1)..Len(got) : SigAt(i, "w1", "dirty", PA)
    /\ LastOp = <<"append", PB>> =>
         \E i \in (hist.marks[Len(hist.marks)] + 1)..Len(got) : SigAt(i, "w1", "dirty", PB)

\* /a/t has been created and renamed onto the removed /a/b, /a/b has been appended to,
\* and w1 has been signalled Changed(/a/b) since the append
C9_Witness ==
  /\ Quiet
  /\ hist.ops = <<<<"create", PT>>, <<"remove", PB>>, <<"rename", PB>>, <<"append", PB>>>>
  /\ \E i \in (hist.marks[4] + 1)..Len(got) : SigAt(i, "w1", "dirty", PB)

(***************************************************************************)
(* Choosing the method of an entry: the environment names any preferred    *)
(* method and any method for NFS, inotify may be unavailable, the paths    *)
(* may be on NFS, and the kernel may allow one inotify watch only; w1 adds *)
(* and removes /a and /a/b while /a/b is created or removed.               *)
(***************************************************************************)
InitSelect ==
  /\ \E method, nfsMethod \in Methods, supports_inotify, nfs \in BOOLEAN,
        max_user_watches \in {1, MaxIno} :
       InitEngineCfg([method |-> method, nfsMethod |-> nfsMethod,
                      supports_inotify |-> supports_inotify, nfs |-> nfs, mount |-> {},
                      poll |-> m_PollInterval, nfsPoll |-> m_nfsPollInterval,
                      max_user_watches |-> max_user_watches])
  /\ \E withB \in BOOLEAN : InitFs(TRUE, withB)
  /\ InitBudget(MaxFsOps, MaxCalls - 1, MaxPolls - 1)

NextSelect ==
  \/ ~contains("w1", PA) /\ AddDir("w1", PA, WatchDirOnly)
  \/ ~contains("w1", PB) /\ AddFile("w1", PB)
  \/ \E p \in {PA, PB} : RemoveDir("w1", p)
  \/ CreateNewFile(PB)
  \/ Remove(PB)
  \/ Loop

SpecSelect == InitSelect /\ [][NextSelect]_vars

\* one attempt of a method: [S, ok]
Attempt(m, S, e) ==
  CASE m = "INotify" -> Call("useINotify", S, <<e>>)
    [] m = "QFSWatch" -> Call("useQFSWatch", S, <<e>>)
    [] OTHER -> [S |-> Call("useStat", S, <<e>>), ok |-> TRUE]

\* the selection as claimed: r = [S, ok, failed]; the methods of ms are attempted in
\* their order until one succeeds, leaving out those that failed, and QFSWatch when
\* INotify failed
RECURSIVE AttemptRest(_, _, _)
AttemptRest(r, ms, e) ==
  IF r.ok \/ ms = <<>> THEN r
  ELSE IF Head(ms) \in r.failed \/ (Head(ms) = "QFSWatch" /\ "INotify" \in r.failed)
  THEN AttemptRest(r, Tail(ms), e)
  ELSE LET a == Attempt(Head(ms), r.S, e)
       IN  AttemptRest([S |-> a.S, ok |-> a.ok,
                        failed |-> IF a.ok THEN r.failed ELSE r.failed \cup {Head(ms)}],
                       Tail(ms), e)

PreferredFor(e) == IF IsNfs(e) THEN cfg.nfsMethod ELSE cfg.method

ClaimedSelect(S, e) ==
  LET a == Attempt(PreferredFor(e), S, e)
  IN  AttemptRest([S |-> a.S, ok |-> a.ok,
                   failed |-> IF a.ok THEN {} ELSE {PreferredFor(e)}],
                  <<"INotify", "QFSWatch", "Stat">>, e)

\* C11: for every entry, addWatch does what attempting the preferred method (the NFS
\* method for a path on NFS) and then, on failure, the remaining methods in the order
\* INotify, QFSWatch, Stat does, no method that failed being attempted again and
\* QFSWatch not being attempted once INotify failed; the attempts end with success, and
\* every entry's mode is INotify, QFSWatch or Stat, and not QFSWatch when the preferred
\* method is INotify
C11_BackendSelection ==
  \A e \in DOMAIN m_mapEntries :
    /\ m_mapEntries[e].m_mode \in {"INotifyMode", "QFSWatchMode", "StatMode"}
    /\ PreferredFor(e) = "INotify" => m_mapEntries[e].m_mode # "QFSWatchMode"
    /\ ClaimedSelect(Cur, e).ok
    /\ Call("addWatch", Cur, <<e>>) = ClaimedSelect(Cur, e).S

\* the preferred method is INotify and the kernel allows one watch: /a has it, and
\* /a/b, for which inotify_add_watch failed, is polled
C11_Witness ==
  /\ cfg.method = "INotify" /\ cfg.supports_inotify /\ ~cfg.nfs
  /\ PA \in DOMAIN m_mapEntries /\ m_mapEntries[PA].m_mode = "INotifyMode"
  /\ m_mapEntries[PA].wd > 0
  /\ PB \in DOMAIN m_mapEntries /\ m_mapEntries[PB].m_mode = "StatMode"
  /\ m_mapEntries[PB].m_status = "Normal"

\* C12: a signal reaches an instance only in a step of its own, which takes the oldest
\* queued call from the event loop's queue, runs it and changes nothing else: the call
\* was queued by an earlier step, and no step in which the engine handles a kernel
\* record, a watcher signal, a timer or a call of a KDirWatch method delivers a signal
C12_QueuedDelivery ==
  [][got' # got =>
       /\ evq # <<>>
       /\ got' = Append(got, Head(evq))
       /\ evq' = Tail(evq)
       /\ UNCHANGED <<m_mapEntries, removeList, delayRemove, m_inotify_wd_to_entry,
                      statEntries, freq, m_statRescanTimer, rescan_timer,
                      removeDelayedTimer, isStopped, inq, fswq, kwatch, fsw>>]_vars

\* after a rescan pass and before its sweep: a signal has been delivered and another one
\* waits in the queue
C12_Witness ==
  /\ got # <<>>
  /\ evq # <<>>
  /\ delayRemove

(***************************************************************************)
(* Order of delivery.  w1 watches the files /a/b and /a/t, or the          *)
(* directory /a with WatchFiles.  As in nestedEventLoop, /a/b is appended  *)
(* to and, once w1 has been signalled dirty(/a/b), /a/t is appended to; or *)
(* /a/t is appended to and then removed.                                   *)
(***************************************************************************)
InitOrder ==
  /\ \E method \in Methods : InitEngine(method)
  /\ InitFiles(TRUE, TRUE, TRUE)
  /\ InitBudget(MaxFsOps + 1, MaxCalls - 1, MaxPolls)

NextOrder ==
  \/ hist.ops = <<>> /\ ~contains("w1", PA) /\ AddDir("w1", PA, WatchFiles)
  \/ hist.ops = <<>> /\ \E p \in {PB, PT} : ~contains("w1", p) /\ AddFile("w1", p)
  \/ hist.ops = <<>> /\ AppendToFile(PB)
  \/ (hist.ops = <<>> \/ Got("w1", "dirty", PB)) /\ AppendToFile(PT)
  \/ hist.ops = <<<<"append", PT>>>> /\ Remove(PT)
  \/ Loop

SpecOrder == InitOrder /\ [][NextOrder]_vars

\* signal sig for path p was delivered to inst before signal sig2 for path p2
Before(inst, sig, p, sig2, p2) ==
  \E i, j \in 1..Len(got) : i < j /\ SigAt(i, inst, sig, p) /\ SigAt(j, inst, sig2, p2)

\* C13: an instance is signalled in the order of the changes: with /a/t appended to from
\* the handler of dirty(/a/b), every dirty(/a/t) comes after a dirty(/a/b); with /a/t
\* appended to and then removed, no dirty(/a/t) comes after deleted(/a/t)
C13_ObservedOrder ==
  /\ hist.ops = <<<<"append", PB>>, <<"append", PT>>>> =>
       \A j \in 1..Len(got) :
         SigAt(j, "w1", "dirty", PT) => \E i \in 1..(j - 1) : SigAt(i, "w1", "dirty", PB)
  /\ hist.ops = <<<<"append", PT>>, <<"remove", PT>>>> =>
       ~Before("w1", "deleted", PT, "dirty", PT)

(***************************************************************************)
(* Paths that are not watched.  As in shouldIgnoreQrcPaths, w1 watches the *)
(* directory /a and asks for ":/kio5", for /dev, /dev/null, /dev/.udev and *)
(* /dev/shm, and for the empty path, while /a/b is created.                *)
(***************************************************************************)
InitReject ==
  /\ \E method \in Methods : InitEngine(method)
  /\ InitFs(TRUE, FALSE)
  /\ InitBudget(MaxFsOps, MaxCalls - 1, MaxPolls - 1)

NextReject ==
  \/ ~contains("w1", PA) /\ AddDir("w1", PA, WatchDirOnly)
  \/ \E p \in OtherPaths : AddDir("w1", p, WatchDirOnly)
  \/ \E p \in OtherPaths : AddFile("w1", p)
  \/ \E p \in OtherPaths : RemoveDir("w1", p)
  \/ CreateNewFile(PB)
  \/ Loop

SpecReject == InitReject /\ [][NextReject]_vars

\* a signal for path p is queued or has been delivered
Signalled(p) == \E i \in 1..Len(got \o evq) : (got \o evq)[i].path = p

\* the application has just called addDir or addFile for p
JustAdded(p) == \E i \in Instances : hist.adds'[<<i, p>>] # hist.adds[<<i, p>>]

\* C14: a path that begins with ":/", /dev and what is below /dev (but for /dev/.* and
\* /dev/shm*) never has an entry, so that contains() is false for it, and never a
\* signal; adding it leaves the engine, the watches and the queued signals as they are
C14_RejectedPathDropped ==
  [][/\ \A p \in {QrcPath, Dev, DevNull} :
          /\ p \notin DOMAIN m_mapEntries'
          /\ \A i \in Instances : ~contains(i, p)'
          /\ ~Signalled(p)'
          /\ JustAdded(p) =>
               UNCHANGED <<m_mapEntries, removeList, delayRemove, m_inotify_wd_to_entry,
                           statEntries, freq, m_statRescanTimer, rescan_timer,
                           removeDelayedTimer, isStopped, inq, fswq, kwatch, fsw, evq, got>>
     /\ \A p \in {DevDot, DevShm}, i \in Instances :
          JustAdded(p) => contains(i, p)' \/ hist.adds'[<<i, p>>] = hist.adds[<<i, p>>]]_vars

\* w1 has asked for ":/kio5", which it does not watch, and has then been signalled
\* dirty(/a) for the creation of /a/b
C14_Witness ==
  /\ hist.adds[<<"w1", QrcPath>>] > 0
  /\ ~contains("w1", QrcPath)
  /\ hist.ops = <<<<"create", PB>>>>
  /\ Got("w1", "dirty", PA)

\* C15: an entry whose status is NonExistent has no watch descriptor (wd is -1, or 0
\* when it never had one) and no record in
\* the map from watch descriptors to entries, its m_ctime is invalid_ctime, and its
\* m_ino and m_nlink are 0
C15_NonExistentHoldsNothing ==
  \A p \in DOMAIN m_mapEntries :
    m_mapEntries[p].m_status = "NonExistent" =>
      /\ m_mapEntries[p].wd <= 0
      /\ \A w \in DOMAIN m_inotify_wd_to_entry : m_inotify_wd_to_entry[w] # p
      /\ m_mapEntries[p].m_ctime = invalid_ctime
      /\ m_mapEntries[p].m_ino = 0
      /\ m_mapEntries[p].m_nlink = 0

(***************************************************************************)
(* Sub-entries                                                             *)
(***************************************************************************)
\* the places where p is listed as a sub-entry: <<q, i>> when p is the i-th of q's m_entries
Listings(p) ==
  UNION {{<<q, i>> : i \in {j \in 1..Len(m_mapEntries[q].m_entries) :
                              m_mapEntries[q].m_entries[j] = p}} :
         q \in DOMAIN m_mapEntries}

\* the nearest ancestor of p that exists in the filesystem
NearestExisting(p) ==
  LET k == CHOOSE k \in 0..(Len(p) - 1) :
             /\ Exists(SubSeq(p, 1, k))
             /\ \A j \in (k + 1)..(Len(p) - 1) : ~Exists(SubSeq(p, 1, j))
  IN  SubSeq(p, 1, k)

\* C16: an entry whose status is NonExistent is listed exactly once as a sub-entry, and
\* that in the entry of its nearest existing ancestor
C16_ListedOnce ==
  \A p \in DOMAIN m_mapEntries :
    m_mapEntries[p].m_status = "NonExistent" =>
      /\ Cardinality(Listings(p)) = 1
      /\ \A l \in Listings(p) : l[1] = NearestExisting(p)

(***************************************************************************)
(* Overwriting a watched file and then giving it up, as testMoveTo does:   *)
(* w1 watches the directory /a and the file /a/b; /a/b is removed and /a/t *)
(* renamed to /a/b; w1 calls removeFile(/a/b); /a/t is created again.      *)
(***************************************************************************)
InitOverwrite ==
  /\ \E method \in Methods : InitEngine(method)
  /\ InitFiles(TRUE, TRUE, TRUE)
  /\ InitBudget(MaxFsOps + 2, MaxCalls - 1, MaxPolls + 1)

NextOverwrite ==
  \/ hist.ops = <<>> /\ ~contains("w1", PA) /\ AddDir("w1", PA, WatchDirOnly)
  \/ hist.ops = <<>> /\ ~contains("w1", PB) /\ AddFile("w1", PB)
  \/ hist.ops = <<>> /\ contains("w1", PA) /\ contains("w1", PB) /\ Remove(PB)
  \/ hist.ops = <<<<"remove", PB>>>> /\ Rename(PT, PB)
  \/ MoveAt # 0 /\ RemoveDir("w1", PB)
  \/ MoveAt # 0 /\ ~contains("w1", PB) /\ CreateNewFile(PT)
  \/ Loop

SpecOverwrite == InitOverwrite /\ [][NextOverwrite]_vars

\* the entries listed as sub-entries
SubEntries ==
  UNION {{m_mapEntries[q].m_entries[i] : i \in 1..Len(m_mapEntries[q].m_entries)} :
         q \in DOMAIN m_mapEntries}

\* C17: every sub-entry and every entry on the removal list is an entry of the table, and
\* every sub-entry has status NonExistent; and once /a/t has been created again after
\* removeFile(/a/b) and the event loop has nothing left to do, w1 has been signalled
\* Changed(/a) since that creation
C17_SubEntriesLive ==
  /\ SubEntries \subseteq DOMAIN m_mapEntries
  /\ removeList \subseteq DOMAIN m_mapEntries
  /\ \A p \in SubEntries \cap DOMAIN m_mapEntries : m_mapEntries[p].m_status = "NonExistent"
  /\ Quiet /\ hist.ops # <<>> /\ LastOp = <<"create", PT>> =>
       \E i \in (hist.marks[Len(hist.marks)] + 1)..Len(got) : SigAt(i, "w1", "dirty", PA)

\* /a/b was overwritten and given up, /a/t has been created again, and w1 has been
\* signalled Changed(/a) since; /a/b has no entry any more
C17_Witness ==
  /\ Quiet
  /\ hist.ops = <<<<"remove", PB>>, <<"rename", PB>>, <<"create", PT>>>>
  /\ PB \notin DOMAIN m_mapEntries
  /\ \E i \in (hist.marks[3] + 1)..Len(got) : SigAt(i, "w1", "dirty", PA)

(***************************************************************************)
(* The sweep.  slotRemoveDelayed is called by a timer of interval 0 that   *)
(* slotRescan starts: the event loop calls it once it gets to run.         *)
(***************************************************************************)
FairSpec == Spec /\ WF_vars(RemoveDelayedTimeout)

\* C18: an entry without clients and sub-entries is in the table only while delayRemove
\* is set, and then it is on the removal list; what is on the removal list is in the end
\* destroyed, or has a client or sub-entry again; and delayRemove is in the end cleared
C18_EmptyEntriesRemoved ==
  /\ [](\A p \in DOMAIN m_mapEntries :
          ~isValid(m_mapEntries[p]) => delayRemove /\ p \in removeList)
  /\ \A p \in Paths :
       (p \in removeList) ~> (p \notin DOMAIN m_mapEntries \/ isValid(m_mapEntries[p]))
  /\ delayRemove ~> ~delayRemove

\* /a/b was watched before it existed, with /a as its placeholder; it has been created,
\* a rescan pass has found it, and the sweep has destroyed the entry of /a
C18_Witness ==
  /\ hist.ops = <<<<"create", PB>>>>
  /\ PB \in DOMAIN m_mapEntries
  /\ m_mapEntries[PB].m_mode = "INotifyMode" /\ m_mapEntries[PB].m_status = "Normal"
  /\ hist.adds[<<"w1", PA>>] = 0
  /\ PA \notin DOMAIN m_mapEntries
  /\ ~delayRemove /\ removeList = {}

(***************************************************************************)
(* Hard links: /a/b and /a/t may be two names of one file (as in           *)
(* testHardlinkChange, /a/b is removed and made again as a link to /a/t),  *)
(* and w1 watches and gives up either.                                     *)
(***************************************************************************)
InitLinks ==
  /\ \E method \in Methods : InitEngine(method)
  /\ \E withB \in BOOLEAN : InitFiles(TRUE, withB, TRUE)
  /\ InitBudget(MaxFsOps + 1, MaxCalls - 1, MaxPolls - 1)

NextLinks ==
  \/ \E p \in {PB, PT} : ~contains("w1", p) /\ AddFile("w1", p)
  \/ \E p \in {PB, PT} : contains("w1", p) /\ RemoveDir("w1", p)
  \/ Remove(PB)
  \/ Link(PT, PB)
  \/ Loop

SpecLinks == InitLinks /\ [][NextLinks]_vars

\* C19: the watch descriptor of an entry is a key of m_inotify_wd_to_entry and leads to
\* that entry; and every record of m_inotify_wd_to_entry leads to an entry of the table
\* whose watch descriptor is the record's key
C19_WdMapConsistent ==
  /\ \A p \in DOMAIN m_mapEntries :
       m_mapEntries[p].wd > 0 =>
         /\ m_mapEntries[p].wd \in DOMAIN m_inotify_wd_to_entry
         /\ m_inotify_wd_to_entry[m_mapEntries[p].wd] = p
  /\ \A w \in DOMAIN m_inotify_wd_to_entry :
       /\ m_inotify_wd_to_entry[w] \in DOMAIN m_mapEntries
       /\ m_mapEntries[m_inotify_wd_to_entry[w]].wd = w

(***************************************************************************)
(* A watcher moved to another thread (KDirWatch::event, ThreadChange): w1  *)
(* and w2 watch /a and /a/b, w1 is moved, and the application goes on      *)
(* calling it.  The calls queued for the instances are delivered in the    *)
(* order they were queued, those of the moved instance too.  The engine of *)
(* the other thread is followed as far as the instance's calls change it:  *)
(* its notifier and its timers are not run.                                *)
(***************************************************************************)
InitThread ==
  /\ \E method \in Methods : InitEngine(method)
  /\ InitFiles(TRUE, TRUE, FALSE)
  /\ InitBudget(MaxFsOps, MaxCalls, MaxPolls)

NextThread ==
  \/ ~contains("w1", PA) /\ AddDir("w1", PA, WatchDirOnly)
  \/ \E i \in Instances : ~contains(i, PB) /\ AddFile(i, PB)
  \/ contains("w1", PA) /\ RemoveDir("w1", PA)
  \/ MoveToThread("w1")
  \/ AppendToFile(PB)
  \/ Loop

SpecThread == InitThread /\ [][NextThread]_vars

\* the instance is a client of some entry of the engine it was created in
RegisteredHere(i) ==
  \E p \in DOMAIN m_mapEntries : findInstance(m_mapEntries[p].m_clients, i) # 0

\* C20: once an instance has been moved to another thread (its d is no longer the engine
\* it was created in), it is a client of no entry of that engine, no signal is delivered
\* to it any more, and no call of it changes an engine: the engine of the other thread,
\* which only its calls can change, stays as constructed
C20_DetachedForGood ==
  [][\A i \in Instances :
       /\ d'[i] # "here" => ~RegisteredHere(i)'
       /\ d[i] # "here" => \A j \in (Len(got) + 1)..Len(got') : got'[j].inst # i
       /\ other' = other]_vars

\* C21: the interval of the polling timer is at most the interval of every entry that is
\* polled (StatMode), whatever clients or instances have been removed
C21_FreqIsSmallest ==
  \A p \in DOMAIN m_mapEntries :
    m_mapEntries[p].m_mode = "StatMode" => freq <= m_mapEntries[p].freq

(***************************************************************************)
(* A root that does not exist (a removed drive): / and /a are watched and  *)
(* released again, with the root there or not.                             *)
(***************************************************************************)
InitRoot ==
  /\ \E method \in Methods : InitEngine(method)
  /\ \E withRoot \in BOOLEAN :
       /\ dirent = [p \in Paths |-> IF p = Root /\ withRoot THEN 1 ELSE 0]
       /\ inode = [i \in Inodes |->
                     IF i = 1 /\ withRoot THEN [kind |-> "dir", nlink |-> 1, ctime |-> 1]
                     ELSE FreeInode]
  /\ gone = [p \in Paths |-> [ino |-> 0, ctime |-> 1]]
  /\ InitBudget(MaxFsOps, MaxCalls, MaxPolls)

NextRoot ==
  \/ \E i \in Instances, p \in {Root, PA} : ~contains(i, p) /\ AddDir(i, p, WatchDirOnly)
  \/ \E i \in Instances, p \in {Root, PA} : contains(i, p) /\ RemoveDir(i, p)
  \/ MkdirNew(PA)
  \/ Loop

SpecRoot == InitRoot /\ [][NextRoot]_vars

\* C22: no call of the engine walks upwards without end, and the root is never listed as
\* a sub-entry of a parent directory
C22_WalkStopsAtRoot ==
  /\ ~looping
  /\ Root \in DOMAIN m_mapEntries => ~InSeq(Root, m_mapEntries[Root].m_entries)

(***************************************************************************)
(* Remove and re-add (removeAndReAdd, nestedEventLoopSlot): w1 watches /a  *)
(* or the file /a/b, stops watching it and watches it again, at any point  *)
(* of the event loop.  Before that /a/b may be appended to (removed, when   *)
(* it is /a that is watched); after the path has been added again /a/b is  *)
(* appended to (/a/t is created in /a), and no call follows.               *)
(***************************************************************************)
Touches(p) == IF p = PA THEN <<"create", PT>> ELSE <<"append", p>>

ReAdded(p) == hist.adds[<<"w1", p>>] = 2 /\ hist.reg[<<"w1", p>>] = 1

InitReAdd ==
  /\ \E method \in Methods : InitEngine(method)
  /\ InitFiles(TRUE, TRUE, FALSE)
  /\ InitBudget(MaxFsOps + 1, MaxCalls - 1, MaxPolls + 1)

NextReAdd ==
  \/ Len(hist.ops) < 2 /\ ~contains("w1", PA) /\ ~contains("w1", PB)
       /\ hist.adds[<<"w1", PB>>] = 0 /\ AddDir("w1", PA, WatchDirOnly)
  \/ Len(hist.ops) < 2 /\ ~contains("w1", PA) /\ ~contains("w1", PB)
       /\ hist.adds[<<"w1", PA>>] = 0 /\ AddFile("w1", PB)
  \/ \E p \in {PA, PB} : Len(hist.ops) < 2 /\ contains("w1", p) /\ RemoveDir("w1", p)
  \/ hist.ops = <<>> /\ hist.adds[<<"w1", PB>>] = 1 /\ contains("w1", PB) /\ AppendToFile(PB)
  \/ hist.ops = <<>> /\ hist.adds[<<"w1", PA>>] = 1 /\ contains("w1", PA) /\ Remove(PB)
  \/ Len(hist.ops) = 1 /\ ReAdded(PB) /\ AppendToFile(PB)
  \/ Len(hist.ops) = 1 /\ ReAdded(PA) /\ CreateNewFile(PT)
  \/ Loop

SpecReAdd == InitReAdd /\ [][NextReAdd]_vars

\* the backend of the entry's mode watches the path
BackendInPlace(p) ==
  LET e == m_mapEntries[p]
  IN  \/ /\ e.m_mode = "INotifyMode"
         /\ e.wd \in DOMAIN m_inotify_wd_to_entry /\ m_inotify_wd_to_entry[e.wd] = p
         /\ e.wd \in DOMAIN kwatch /\ kwatch[e.wd] = dirent[p]
      \/ e.m_mode = "QFSWatchMode" /\ p \in DOMAIN fsw /\ fsw[p] = dirent[p]
      \/ e.m_mode = "StatMode" /\ m_statRescanTimer

\* C23: once w1 has removed and added again a path p it was watching, the table has an
\* entry for p of which w1 is a client with count 1, whatever removal sweep has run since,
\* and the entry's backend watches p; and once p has been changed after that and the event
\* loop has nothing left to do, w1 has been signalled Changed(p) since the change
C23_ReAddWatches ==
  \A p \in {PA, PB} :
    ReAdded(p) =>
      /\ p \in DOMAIN m_mapEntries
      /\ LET i == findInstance(m_mapEntries[p].m_clients, "w1")
         IN  i # 0 /\ m_mapEntries[p].m_clients[i].count = 1
      /\ p \in DOMAIN m_mapEntries => BackendInPlace(p)
      /\ Quiet /\ Len(hist.ops) = 2 /\ LastOp = Touches(p) =>
           \E i \in (hist.marks[2] + 1)..Len(got) : SigAt(i, "w1", "dirty", p)

\* w1 has added /a/b again while the entry waited on the removal list, the sweep has run,
\* /a/b has then been appended to, and the event loop has nothing left to do
C23_Witness ==
  /\ ReAdded(PB) /\ Quiet /\ Len(hist.ops) = 2 /\ LastOp = <<"append", PB>>
  /\ ~delayRemove /\ ~removeDelayedTimer
  /\ \E i \in 1..hist.marks[2] : SigAt(i, "w1", "dirty", PB)

(***************************************************************************)
(* Deletion of a watched file (testDelete): w1 watches the file /a/b, w2   *)
(* may watch /a, and /a/b is removed.  The kernel's records of the unlink  *)
(* may reach the engine in one read or one after the other, the rescan     *)
(* timer firing in between.                                                *)
(***************************************************************************)
\* the socket notifier is activated when the kernel has written the first record only
InotifyActivatedFirst ==
  /\ ~looping
  /\ Len(inq) > 1
  /\ \E S \in {Call("inotifyEventReceived", [Cur EXCEPT !.inq = <<Head(inq)>>], <<>>)} :
       Commit([S EXCEPT !.inq = Tail(inq) \o @])
  /\ EnvUnchanged /\ UNCHANGED <<fswq, isStopped, budget, hist, d, other,
                             m_referencesObjects>>

InitDelete ==
  /\ \E method \in Methods : InitEngine(method)
  /\ InitFiles(TRUE, TRUE, FALSE)
  /\ InitBudget(MaxFsOps, MaxCalls - 2, MaxPolls + 1)

NextDelete ==
  \/ hist.ops = <<>> /\ ~contains("w1", PB) /\ AddFile("w1", PB)
  \/ hist.ops = <<>> /\ ~contains("w2", PA) /\ AddDir("w2", PA, WatchDirOnly)
  \/ contains("w1", PB) /\ Remove(PB)
  \/ InotifyActivatedFirst
  \/ Loop

SpecDelete == InitDelete /\ [][NextDelete]_vars

\* C24: w1, which watches only the file /a/b, is never signalled Changed; and once /a/b
\* has been removed and the event loop has nothing left to do, w1 has been signalled
\* Deleted(/a/b) since the removal
C24_DeletedNotChanged ==
  /\ \A j \in 1..Len(got) : ~(got[j].inst = "w1" /\ got[j].sig = "dirty")
  /\ Quiet /\ hist.ops # <<>> =>
       \E j \in (hist.marks[1] + 1)..Len(got) : SigAt(j, "w1", "deleted", PB)

\* /a/b has been removed, the engine has handled the first record of the kernel, the
\* rescan has run before the other records were read, and w1 has been signalled Deleted
C24_Witness ==
  /\ hist.ops = <<<<"remove", PB>>>>
  /\ m_mapEntries[PB].m_status = "NonExistent"
  /\ m_mapEntries[PB].wd > 0
  /\ inq # <<>>
  /\ \E j \in 1..Len(got) : SigAt(j, "w1", "deleted", PB)

\* KDirWatch::internalMethod (inotify and QFileSystemWatcher compiled in)
internalMethod ==
  IF cfg.method = "INotify" /\ cfg.supports_inotify THEN "INotify"
  ELSE IF cfg.method = "QFSWatch" THEN "QFSWatch"
  ELSE IF cfg.method = "Stat" THEN "Stat"
  ELSE IF cfg.supports_inotify THEN "INotify"
  ELSE "QFSWatch"

\* the m_mode of an entry watched with method m
ModeOf(m) ==
  IF m = "INotify" THEN "INotifyMode" ELSE IF m = "QFSWatch" THEN "QFSWatchMode" ELSE "StatMode"

\* C25: the mode of every entry of an existing path that is not on NFS is the method
\* internalMethod() returns (the kernel's limit on inotify watches left aside)
C25_InternalMethodIsMode ==
  cfg.max_user_watches = MaxIno =>
    \A p \in DOMAIN m_mapEntries :
      m_mapEntries[p].m_status = "Normal" /\ ~IsNfs(p) =>
        m_mapEntries[p].m_mode = ModeOf(internalMethod)

\* the removeDir and removeFile calls of Spec: (instance, path)
Removals == {<<"w1", PA>>, <<"w1", PB>>, <<"w2", PB>>}

\* a step of removeDir or removeFile by an instance that has no registration of the path
RemovesUnregistered ==
  /\ budget'.calls < budget.calls
  /\ hist'.adds = hist.adds
  /\ hist'.reg = hist.reg

\* C26: removeDir or removeFile by an instance that is not a client of the path's entry,
\* or for a path that has no entry, leaves the entries (with their clients, counts and
\* sub-entries), the inotify watches, the paths of QFileSystemWatcher and the polling as
\* they were
C26_RemoveUnregistered ==
  [][RemovesUnregistered /\ (\A r \in Removals : hist.reg[r] = 0 => ~contains(r[1], r[2]))
       => UNCHANGED <<m_mapEntries, m_inotify_wd_to_entry, kwatch, fsw, statEntries,
                      m_statRescanTimer, freq>>]_vars

\* w2 has added /a/b once, and w1, which has added nothing, has called removeDir(/a) or
\* removeFile(/a/b)
C26_Witness ==
  /\ contains("w2", PB) /\ ~contains("w1", PB)
  /\ hist.adds[<<"w2", PB>>] = 1 /\ hist.reg[<<"w2", PB>>] = 1
  /\ hist.adds[<<"w1", PB>>] = 0 /\ hist.adds[<<"w1", PA>>] = 0
  /\ budget.calls = MaxCalls - 2

(***************************************************************************)
(* Changes of the children of a watched directory (touch1000Files): w1 and *)
(* w2 watch /a, may stop and restart their scan of it, and /a/b and /a/t   *)
(* are appended to.                                                        *)
(***************************************************************************)
InitTouch ==
  /\ \E method \in Methods : InitEngine(method)
  /\ InitFiles(TRUE, TRUE, TRUE)
  /\ InitBudget(MaxFsOps + 2, MaxCalls - 1, MaxPolls)

NextTouch ==
  \/ \E i \in Instances, wm \in {WatchDirOnly, WatchFiles} :
       ~contains(i, PA) /\ AddDir(i, PA, wm)
  \/ \E i \in Instances : StopDirScan(i, PA)
  \/ \E i \in Instances : RestartDirScan(i, PA)
  \/ \E p \in {PB, PT} : contains("w1", PA) /\ AppendToFile(p)
  \/ Loop

SpecTouch == InitTouch /\ [][NextTouch]_vars

\* a step that runs slotRescan: rescan_timer or m_statRescanTimer has timed out
RescanPass ==
  \/ rescan_timer /\ ~rescan_timer' /\ budget' = budget
  \/ budget'.polls < budget.polls

\* the instances emitEvent signals for the entry of p
ActiveClients(p) ==
  {m_mapEntries[p].m_clients[i].instance : i \in
     {j \in 1..Len(m_mapEntries[p].m_clients) :
        /\ m_mapEntries[p].m_clients[j].instance # NoInst
        /\ m_mapEntries[p].m_clients[j].count > 0
        /\ ~m_mapEntries[p].m_clients[j].watchingStopped}}

\* the children of p named in m_pendingFileChanges
PendingChildren(p) ==
  {m_mapEntries[p].m_pendingFileChanges[i] :
     i \in 1..Len(m_mapEntries[p].m_pendingFileChanges)} \ {p}

\* the calls the step has queued
QueuedByStep == SubSeq(evq', Len(evq) + 1, Len(evq'))

\* C27: a rescan pass queues, for every directory entry in inotify mode with an active
\* client, exactly one Changed per active client for every distinct child named in
\* m_pendingFileChanges, and leaves m_pendingFileChanges empty
C27_PendingFlushed ==
  [][RescanPass =>
       \A p \in DOMAIN m_mapEntries :
         (/\ m_mapEntries[p].isDir
          /\ m_mapEntries[p].m_mode = "INotifyMode"
          /\ ActiveClients(p) # {}) =>
            /\ \A n \in PendingChildren(p), i \in ActiveClients(p) :
                 Cardinality({j \in 1..Len(QueuedByStep) :
                                QueuedByStep[j] = [inst |-> i, sig |-> "dirty", path |-> n]}) = 1
            /\ p \in DOMAIN m_mapEntries'
            /\ m_mapEntries'[p].m_pendingFileChanges = <<>>]_vars

\* /a/b, /a/t and /a/b again have been appended to, the engine has read the kernel's
\* records of the three, and one pass has queued Changed(/a/b) and Changed(/a/t) for w1
C27_Witness ==
  /\ hist.ops = <<<<"append", PB>>, <<"append", PT>>, <<"append", PB>>>>
  /\ inq = <<>>
  /\ PA \in DOMAIN m_mapEntries
  /\ m_mapEntries[PA].m_mode = "INotifyMode"
  /\ m_mapEntries[PA].m_pendingFileChanges = <<>>
  /\ got = <<>>
  /\ evq = <<[inst |-> "w1", sig |-> "dirty", path |-> PB],
             [inst |-> "w1", sig |-> "dirty", path |-> PT]>>

(***************************************************************************)
(* A directory deleted and another one made (testDeleteAndRecreateDir):    *)
(* w1 watches the directory /a/b, /a/b is removed, the directory /a/t is   *)
(* made, with the inode number /a/b had or another one, and w1 adds it;    *)
(* w2 may watch /a.                                                        *)
(***************************************************************************)
InitRecreate ==
  /\ \E method \in Methods : InitEngine(method)
  /\ InitFiles(TRUE, FALSE, FALSE)
  /\ InitBudget(MaxFsOps + 2, MaxCalls - 1, MaxPolls + 1)

NextRecreate ==
  \/ hist.ops = <<>> /\ MkdirNew(PB)
  \/ Len(hist.ops) = 1 /\ ~contains("w1", PB) /\ AddDir("w1", PB, WatchDirOnly)
  \/ Len(hist.ops) = 1 /\ ~contains("w2", PA) /\ AddDir("w2", PA, WatchDirOnly)
  \/ Len(hist.ops) = 1 /\ contains("w1", PB) /\ Remove(PB)
  \/ \E ino \in NewInodes(PT), stamp \in NewStamps(PT) :
       Len(hist.ops) = 2 /\ CanCreate(PT) /\ ApplyFs(FsMkdir(PT, ino, stamp))
  \/ Len(hist.ops) = 3 /\ ~contains("w1", PT) /\ AddDir("w1", PT, WatchDirOnly)
  \/ Loop

SpecRecreate == InitRecreate /\ [][NextRecreate]_vars

TakesStat(e) ==
  /\ m_mapEntries[e].m_mode # "UnknownMode"
  /\ m_mapEntries[e].m_mode = "INotifyMode" => m_mapEntries[e].dirty
  /\ m_mapEntries[e].m_mode = "StatMode" => m_mapEntries[e].msecLeft - freq <= 0

\* the path's max(ctime, mtime), inode number or link count is not the recorded one
IdentityDiffers(e) ==
  \/ StatOf(e).ctime # m_mapEntries[e].m_ctime
  \/ dirent[e] # m_mapEntries[e].m_ino
  \/ StatOf(e).nlink # m_mapEntries[e].m_nlink

\* scanEntry(e) called where the engine stands: [S, ev]
ScanNow(e) == Call("scanEntry", Cur, <<e>>)

\* C29: whenever scanEntry stats the path of an entry, its outcome is the table's:
\* NonExistent and the path exists: Created, status Normal, max(ctime, mtime), inode
\* number and link count recorded, the entry not among its parent's sub-entries; Normal and
\* the path exists with another time, inode number or link count: Deleted|Created when
\* the inode number differs, Changed otherwise; Normal and the path is missing: Deleted,
\* status NonExistent, inode number, link count and time cleared; NoChange otherwise
C29_ScanTable ==
  \A e \in DOMAIN m_mapEntries :
    ~looping /\ TakesStat(e) =>
      LET r == ScanNow(e)
          was == m_mapEntries[e]
          par == parentDirectory(e)
      IN  IF was.m_status = "NonExistent" /\ Exists(e)
          THEN /\ r.ev = Created
               /\ r.S.map[e].m_status = "Normal"
               /\ r.S.map[e].m_ctime = StatOf(e).ctime
               /\ r.S.map[e].m_ino = dirent[e]
               /\ r.S.map[e].m_nlink = StatOf(e).nlink
               /\ par \in DOMAIN r.S.map => ~InSeq(e, r.S.map[par].m_entries)
          ELSE IF was.m_status = "Normal" /\ Exists(e) /\ IdentityDiffers(e)
          THEN r.ev = IF dirent[e] # was.m_ino THEN Deleted \cup Created ELSE Changed
          ELSE IF was.m_status = "Normal" /\ ~Exists(e)
          THEN /\ r.ev = Deleted
               /\ r.S.map[e].m_status = "NonExistent"
               /\ r.S.map[e].m_ino = 0 /\ r.S.map[e].m_nlink = 0
               /\ r.S.map[e].m_ctime = invalid_ctime
          ELSE r.ev = NoChange

(***************************************************************************)
(* The watch of QFileSystemWatcher: w1 watches /a/b as a file or as a      *)
(* directory, and /a/b is made, appended to, removed and made again, with  *)
(* the inode number and the timestamp it had or with new ones.             *)
(***************************************************************************)
InitGeneric ==
  /\ \E method \in Methods : InitEngine(method)
  /\ \E withB \in BOOLEAN : InitFs(TRUE, withB)
  /\ InitBudget(MaxFsOps + 2, MaxCalls - 2, MaxPolls)

NextGeneric ==
  \/ ~contains("w1", PB) /\ (Exists(PB) => ~IsDirPath(PB)) /\ AddFile("w1", PB)
  \/ ~contains("w1", PB) /\ (Exists(PB) => IsDirPath(PB)) /\ AddDir("w1", PB, WatchDirOnly)
  \/ contains("w1", PB) /\ m_mapEntries[PB].isDir /\ Mkdir(PB)
  \/ contains("w1", PB) /\ ~m_mapEntries[PB].isDir /\ CreateFile(PB)
  \/ ~contains("w1", PB) /\ hist.ops = <<>> /\ MkdirNew(PB)
  \/ Remove(PB)
  \/ AppendToFile(PB)
  \/ Loop

SpecGeneric == InitGeneric /\ [][NextGeneric]_vars

\* QFileSystemWatcher watches the object at the entry's path
AttachedToWatcher(e) == e \in DOMAIN fsw /\ fsw[e] = dirent[e]

\* the entry is NonExistent and a sub-entry of its parent's entry
ListedUnderParent(e) ==
  /\ m_mapEntries[e].m_status = "NonExistent"
  /\ parentDirectory(e) \in DOMAIN m_mapEntries
  /\ InSeq(e, m_mapEntries[parentDirectory(e)].m_entries)

\* C30: an entry in QFileSystemWatcher mode for which no signal of the watcher is waiting
\* to be handled is watched by QFileSystemWatcher, or it is NonExistent and listed as a
\* sub-entry of its parent
C30_WatchNotLost ==
  \A e \in DOMAIN m_mapEntries :
    m_mapEntries[e].m_mode = "QFSWatchMode" /\ e \notin fswq /\ ~rescan_timer =>
      AttachedToWatcher(e) \/ ListedUnderParent(e)

(***************************************************************************)
(* The combined event Deleted|Created.                                     *)
(***************************************************************************)
\* a step that scans the entry of e: a rescan pass, or the watcher's signal for e
ScansEntry(e) ==
  \/ RescanPass
  \/ e \in fswq /\ fswq' = fswq \ {e}

\* the positions of the calls of sig(e) the step has queued for instance i
QueuedAt(i, sig, e) ==
  {j \in 1..Len(QueuedByStep) : QueuedByStep[j] = [inst |-> i, sig |-> sig, path |-> e]}

\* C31: a step that scans an entry for which scanEntry yields Deleted|Created queues, for
\* every client of the entry that is not stopped, Deleted(e) and after it Created(e), and
\* queues no Changed(e)
C31_DeletedThenCreated ==
  [][\A e \in DOMAIN m_mapEntries :
       (/\ ~looping /\ TakesStat(e)
        /\ ScanNow(e).ev = Deleted \cup Created
        /\ ScansEntry(e)) =>
          \A i \in ActiveClients(e) :
            /\ \E j \in QueuedAt(i, "deleted", e) : \E k \in QueuedAt(i, "created", e) : j < k
            /\ QueuedAt(i, "dirty", e) = {}]_vars

\* under polling, /a/b has been replaced by another file, one poll has run since, and the
\* calls queued for w1 are Deleted(/a/b) and Created(/a/b)
C31_Witness ==
  /\ cfg.method = "Stat"
  /\ Replaced
  /\ budget.polls = MaxPolls + 1
  /\ evq = <<[inst |-> "w1", sig |-> "deleted", path |-> PB],
             [inst |-> "w1", sig |-> "created", path |-> PB]>>

(***************************************************************************)
(* The pace of polling: /a/t is on NFS and polled, /a/b is local; the      *)
(* polling intervals are those of KDIRWATCH_POLLINTERVAL and               *)
(* KDIRWATCH_NFSPOLLINTERVAL; w1 watches the two files, and they are       *)
(* appended to.                                                            *)
(***************************************************************************)
PollIntervals == {2}
NfsPollIntervals == {4, 5}

InitPace ==
  /\ \E method \in Methods, poll \in PollIntervals, nfsPoll \in NfsPollIntervals :
       InitEngineCfg([method |-> method, nfsMethod |-> "Stat", supports_inotify |-> TRUE,
                      nfs |-> FALSE, mount |-> {PT}, poll |-> poll, nfsPoll |-> nfsPoll,
                      max_user_watches |-> MaxIno])
  /\ InitFiles(TRUE, TRUE, TRUE)
  /\ InitBudget(MaxFsOps + 1, MaxCalls - 2, MaxPolls + 6)

NextPace ==
  \/ \E p \in {PB, PT} : ~contains("w1", p) /\ hist.ops = <<>> /\ AddFile("w1", p)
  \/ \E p \in {PB, PT} : contains("w1", p) /\ AppendToFile(p)
  \/ Loop

SpecPace == InitPace /\ [][NextPace]_vars

\* the entries slotRescan paces: those in stat mode
Polled == {e \in DOMAIN m_mapEntries : m_mapEntries[e].m_mode = "StatMode"}

\* the pass has taken the entry's stat: the recorded time is the path's
StatTaken(e) == Exists(e) => m_mapEntries'[e].m_ctime = StatOf(e).ctime

sizeofEvent == 16
BufSize == 40
MaxReads == 3

\* event->len: the kernel pads a name to a multiple of sizeof(struct inotify_event)
LenOf(r) == IF r.name = "" THEN 0 ELSE 16
eventSize(r) == sizeofEvent + LenOf(r)

RECURSIVE Bytes(_)
Bytes(q) == IF q = <<>> THEN 0 ELSE eventSize(Head(q)) + Bytes(Tail(q))

Min2(a, b) == IF a <= b THEN a ELSE b

\* the record the kernel queues when its queue has overflowed
OverflowRecord == [wd |-> -1, mask |-> {"Q_OVERFLOW"}, name |-> "", isdir |-> FALSE]

\* the bytes of the longest run of whole records at the head of q that fit in n bytes
RECURSIVE WholeBytes(_, _)
WholeBytes(q, n) ==
  IF q = <<>> \/ eventSize(Head(q)) > n THEN 0
  ELSE eventSize(Head(q)) + WholeBytes(Tail(q), n - eventSize(Head(q)))

\* read() does not return: the descriptor is blocking and nothing is queued
Blocks == -2

\* the records of q that lie beyond its first n bytes
RECURSIVE Beyond(_, _)
Beyond(q, n) == IF q = <<>> \/ n <= 0 THEN q ELSE Beyond(Tail(q), n - eventSize(Head(q)))

\* what read(m_inotify_fd, &buf[offsetStartRead], bytesToRead) returns: avail bytes are
\* queued and unread, q are the records they belong to when no record is cut
readReturns(kind, q, have, avail, bytesToRead) ==
  IF kind = "fail" THEN -1
  ELSE IF avail = 0 THEN Blocks
  ELSE IF kind = "whole" /\ have = 0
  THEN IF WholeBytes(q, bytesToRead) = 0 THEN -1 ELSE WholeBytes(q, bytesToRead)
  ELSE IF kind = "half" THEN (Min2(bytesToRead, avail) + 1) \div 2
  ELSE Min2(bytesToRead, avail)

\* the inner loop: the whole records among the bytesAvailable bytes at the start of the
\* buffer are processed; a = [q, bytesAvailable, done, overflow]
RECURSIVE parseBuffer(_)
parseBuffer(a0) ==
  LET Rest(a) ==
        IF a.bytesAvailable < sizeofEvent THEN a
        ELSE IF "Q_OVERFLOW" \in Head(a.q).mask THEN [a EXCEPT !.overflow = TRUE]
        ELSE IF a.bytesAvailable < eventSize(Head(a.q)) THEN a
        ELSE parseBuffer([a EXCEPT !.q = Tail(@),
                                   !.bytesAvailable = @ - eventSize(Head(a.q)),
                                   !.done = Append(@, Head(a.q))])
  IN  Bind(a0, Rest)

\* the outer loop: a = [q, offsetStartRead, pending, outs, done, taken]; q are the
\* records not processed yet, the first offsetStartRead bytes of which are in the
\* buffer; outs are the kinds of result of the reads to come (reads beyond them return
\* all the bytes), taken the bytes read so far.
\* The result: the records processed, the bytes taken from the kernel's queue, and how
\* the loop ended: "returned", "overflow" (the return at IN_Q_OVERFLOW), "blocked" (a
\* read waits with nothing queued), "garbled" (a failed read has made the loop
\* forget the last byte of the partial record in the buffer)
RECURSIVE readLoop(_)
readLoop(a0) ==
  LET Ended(a, taken, status, torn) ==
        [done |-> a.done, taken |-> taken, status |-> status, torn |-> torn]
      Parsed(c) ==
        IF c.b.overflow THEN Ended(c.b, c.a.taken + c.n, "overflow", FALSE)
        ELSE readLoop([q |-> c.b.q,
                       offsetStartRead |-> IF c.b.bytesAvailable > 0
                                           THEN c.b.bytesAvailable ELSE 0,
                       pending |-> c.a.pending - c.n,
                       outs |-> IF c.a.outs = <<>> THEN <<>> ELSE Tail(c.a.outs),
                       done |-> c.b.done,
                       taken |-> c.a.taken + (IF c.n > 0 THEN c.n ELSE 0)])
      Read(c) ==
        IF c.n = Blocks THEN Ended(c.a, c.a.taken, "blocked", FALSE)
        ELSE IF c.n = -1 /\ c.a.offsetStartRead > 0
        THEN Ended(c.a, c.a.taken, "garbled", TRUE)
        ELSE Bind([a |-> c.a, n |-> c.n,
                   b |-> parseBuffer([q |-> c.a.q,
                                      bytesAvailable |-> c.n + c.a.offsetStartRead,
                                      done |-> c.a.done, overflow |-> FALSE])], Parsed)
      Rest(a) ==
        IF a.pending <= 0 THEN Ended(a, a.taken, "returned", a.offsetStartRead > 0)
        ELSE Bind([a |-> a,
                   n |-> readReturns(IF a.outs = <<>> THEN "all" ELSE Head(a.outs), a.q,
                                     a.offsetStartRead, Bytes(a.q) - a.offsetStartRead,
                                     Min2(a.pending, BufSize - a.offsetStartRead))], Read)
  IN  Bind(a0, Rest)

\* ioctl(FIONREAD) and the loop, for the kernel's queue q
readRecords(q, outs) ==
  readLoop([q |-> q, offsetStartRead |-> 0, pending |-> Bytes(q), outs |-> outs,
            done |-> <<>>, taken |-> 0])

\* the kinds of result of a read, and the results of up to MaxReads reads
ReadKinds == {"all", "half", "whole", "fail"}
KernelKinds == {"whole", "fail"}
SeqsUpTo(K, n) == UNION {[1..m -> K] : m \in 0..n}

\* the records of q before its first overflow record
RECURSIVE UpToOverflow(_)
UpToOverflow(q) ==
  IF q = <<>> \/ "Q_OVERFLOW" \in Head(q).mask THEN <<>>
  ELSE <<Head(q)>> \o UpToOverflow(Tail(q))

\* the socket notifier is activated and the reads of the loop end as outs says: the
\* records the loop has parsed are processed, the bytes it has not read stay queued,
\* and a read that waits keeps the thread in the handler.  The kernel hands out whole
\* records.
InotifyActivatedReads ==
  /\ ~looping
  /\ inq # <<>>
  /\ \E outs \in SeqsUpTo(KernelKinds, MaxReads - 1) :
     \E r \in {readRecords(inq, outs)} :
     \E S \in {Call("inotifyEventReceived", [Cur EXCEPT !.inq = r.done], <<>>)} :
       Commit([S EXCEPT !.inq = Beyond(inq, r.taken),
                        !.looping = (r.status = "blocked")])
  /\ EnvUnchanged /\ UNCHANGED <<fswq, isStopped, budget, hist, d, other,
                             m_referencesObjects>>

\* the kernel's queue overflows: the kernel queues the overflow record
QueueOverflows ==
  /\ cfg.supports_inotify /\ DOMAIN kwatch # {}
  /\ budget.fs > 0
  /\ \A i \in 1..Len(inq) : "Q_OVERFLOW" \notin inq[i].mask
  /\ budget' = [budget EXCEPT !.fs = @ - 1]
  /\ inq' = Append(inq, OverflowRecord)
  /\ hist' = [hist EXCEPT !.ops = Append(@, <<"overflow", Root>>),
                          !.marks = Append(@, Len(got)), !.polled = FALSE]
  /\ UNCHANGED <<dirent, inode, gone, kwatch, nextWd, fsw, fswq, cfg, m_mapEntries,
                 removeList, delayRemove, m_inotify_wd_to_entry, statEntries, freq,
                 m_statRescanTimer, rescan_timer, removeDelayedTimer, isStopped, looping,
                 evq, d, other, m_referencesObjects, got>>

(***************************************************************************)
(* Reading the kernel's records: w1 watches /a with its files, and /a/b    *)
(* itself; the files are appended to, the queue may overflow, and the      *)
(* reads of the loop end in every way.                                     *)
(***************************************************************************)
InitRead ==
  /\ \E method \in Methods : InitEngine(method)
  /\ InitFiles(TRUE, TRUE, TRUE)
  /\ InitBudget(MaxFsOps + 2, MaxCalls - 2, MaxPolls - 1)

NextRead ==
  \/ ~contains("w1", PA) /\ AddDir("w1", PA, WatchFiles)
  \/ ~contains("w1", PB) /\ AddFile("w1", PB)
  \/ \E p \in {PB, PT} : contains("w1", PA) /\ AppendToFile(p)
  \/ QueueOverflows
  \/ InotifyActivatedReads
  \/ RescanTimeout
  \/ StatTimeout
  \/ RemoveDelayedTimeout
  \/ \E p \in Paths : FswSignal(p)
  \/ Deliver

SpecRead == InitRead /\ [][NextRead]_vars

\* C33: the read loop returns for every way the reads may end, and it has then
\* processed, once each and in the order of the stream, the records of the kernel's
\* queue that precede the first overflow record, leaving no part of a record behind
C33_ReadLoop ==
  \A outs \in SeqsUpTo(ReadKinds, MaxReads) :
    LET r == readRecords(inq, outs)
    IN  /\ r.status \in {"returned", "overflow"}
        /\ r.done = UpToOverflow(inq)
        /\ ~r.torn

\* the same for reads that do not fail
C33_ReadLoopNoFailure ==
  \A outs \in SeqsUpTo(ReadKinds \ {"fail"}, MaxReads) :
    LET r == readRecords(inq, outs)
    IN  /\ r.status \in {"returned", "overflow"}
        /\ r.done = UpToOverflow(inq)
        /\ ~r.torn

(***************************************************************************)
(* Registrations of the wrong kind: w1 and w2 add /a (a directory) and     *)
(* /a/b (a file, or nothing yet) with addDir, in every watch mode, and     *)
(* with addFile.                                                           *)
(***************************************************************************)
InitKind ==
  /\ \E method \in Methods : InitEngine(method)
  /\ \E withB \in BOOLEAN : InitFiles(TRUE, withB, TRUE)
  /\ InitBudget(MaxFsOps, MaxCalls - 1, MaxPolls - 1)

NextKind ==
  \/ \E i \in Instances, p \in {PA, PB}, wm \in {WatchDirOnly, WatchFiles, WatchSubDirs} :
       AddDir(i, p, wm)
  \/ \E i \in Instances, p \in {PA, PB} : AddFile(i, p)
  \/ AppendToFile(PB)
  \/ Loop

SpecKind == InitKind /\ [][NextKind]_vars

\* the clients of entry e whose watch modes are not WatchDirOnly
DeepClients(e) ==
  {k \in 1..Len(m_mapEntries[e].m_clients) :
     m_mapEntries[e].m_clients[k].m_watchModes # WatchDirOnly}

\* an instance is a client of a child of e without having added the child itself
ChildWatchesOf(e) ==
  {<<i, c>> \in Instances \X Paths :
     /\ parentDirectory(c) = e /\ c # e
     /\ c \in DOMAIN m_mapEntries
     /\ findInstance(m_mapEntries[c].m_clients, i) # 0
     /\ hist.adds[<<i, c>>] = 0}

\* C34: every client of an entry that is not a directory has the watch modes
\* WatchDirOnly, and no child of the entry is watched on its behalf
C34_FileModesOff ==
  \A e \in DOMAIN m_mapEntries :
    ~m_mapEntries[e].isDir => DeepClients(e) = {} /\ ChildWatchesOf(e) = {}

\* the same for the entries an instance has registered once and nobody else has
C34_FirstRegistration ==
  \A e \in DOMAIN m_mapEntries :
    /\ ~m_mapEntries[e].isDir
    /\ Len(m_mapEntries[e].m_clients) = 1
    /\ m_mapEntries[e].m_clients[1].count = 1
    => DeepClients(e) = {} /\ ChildWatchesOf(e) = {}

\* an entry takes the kind stat reports when the path exists
C34_KindFollowsStat ==
  [][\A e \in DOMAIN m_mapEntries' \ DOMAIN m_mapEntries :
       Exists(e) => m_mapEntries'[e].isDir = IsDirPath(e)]_vars

(***************************************************************************)
(* The destruction of an instance.  ~KDirWatch calls removeEntries and     *)
(* unref; ~QObject then withdraws the calls queued for the object.  The    *)
(* destruction is followed while another instance keeps the engine alive.  *)
(***************************************************************************)
NotFor(instance, q) ==
  LET Other(x) == x.inst # instance IN SelectSeq(q, Other)

\* ~KDirWatchPrivate, run when unref finds the list of the engine of the other thread
\* empty: d of every client of an entry is set to null; an instance whose d points to
\* the engine and that is a client of no entry keeps its d ("dangling")
AfterPrivate(S, i) ==
  IF d[i] # "there" THEN d[i]
  ELSE IF \E p \in DOMAIN S.map : findInstance(S.map[p].m_clients, i) # 0 THEN "null"
  ELSE "dangling"

Destroy(instance) ==
  /\ ApiCall
  /\ d[instance] \in {"here", "there"}
  /\ d[instance] = "here" => \E i \in Instances \ {instance} : d[i] = "here"
  /\ IF d[instance] = "here"
     THEN /\ \E S \in {Call("removeEntries", Cur, <<instance>>)} :
               Commit([S EXCEPT !.evq = NotFor(instance, @)])
          /\ d' = [d EXCEPT ![instance] = "deleted"]
          /\ other' = other
     ELSE /\ \E S \in {Call("removeEntries", [other EXCEPT !.evq = evq, !.got = got],
                             <<instance>>)} :
               /\ evq' = NotFor(instance, S.evq)
               /\ got' = S.got
               /\ IF m_referencesObjects["there"] \ {instance} = {}
                  THEN /\ other' = NewPrivate
                       /\ d' = [i \in Instances |->
                                  IF i = instance THEN "deleted" ELSE AfterPrivate(S, i)]
                  ELSE /\ other' = [S EXCEPT !.evq = <<>>, !.got = <<>>]
                       /\ d' = [d EXCEPT ![instance] = "deleted"]
          /\ UNCHANGED <<m_mapEntries, removeList, delayRemove, m_inotify_wd_to_entry,
                         statEntries, freq, m_statRescanTimer, rescan_timer,
                         removeDelayedTimer, kwatch, nextWd, inq, fsw, looping>>
  /\ m_referencesObjects' = unref(m_referencesObjects, d[instance], instance)
  /\ EnvUnchanged /\ UNCHANGED <<fswq, isStopped, hist>>

(***************************************************************************)
(* w1 and w2 add /a and /a/b, more than once, /a/b existing or not; /a/b   *)
(* is created or appended to, and an instance is destroyed.                *)
(***************************************************************************)
InitDestroy ==
  /\ \E method \in Methods : InitEngine(method)
  /\ \E withB \in BOOLEAN : InitFiles(TRUE, withB, FALSE)
  /\ InitBudget(MaxFsOps, MaxCalls, MaxPolls - 1)

NextDestroy ==
  \/ \E i \in Instances : d[i] = "here" /\ AddDir(i, PA, WatchDirOnly)
  \/ \E i \in Instances : d[i] = "here" /\ AddFile(i, PB)
  \/ \E i \in Instances : Destroy(i)
  \/ CreateNewFile(PB)
  \/ AppendToFile(PB)
  \/ Loop

SpecDestroy == InitDestroy /\ [][NextDestroy]_vars

\* the step destroys instance i
Destroys(i) == d[i] = "here" /\ d'[i] = "deleted"

ListedIn(map, i) == {p \in DOMAIN map : findInstance(map[p].m_clients, i) # 0}

\* the clients of the other instances
ClientsBut(e, i) == LET Other(c) == c.instance # i IN SelectSeq(e.m_clients, Other)

\* entry p keeps its place in the table, the clients of the other instances and its watch
KeepsOthers(p, i) ==
  /\ p \in DOMAIN m_mapEntries'
  /\ ClientsBut(m_mapEntries'[p], i) = ClientsBut(m_mapEntries[p], i)
  /\ m_mapEntries'[p].m_mode = m_mapEntries[p].m_mode
  /\ m_mapEntries'[p].wd = m_mapEntries[p].wd
  /\ m_mapEntries[p].m_mode = "INotifyMode" /\ m_mapEntries[p].wd \in DOMAIN kwatch =>
       /\ m_mapEntries[p].wd \in DOMAIN kwatch'
       /\ m_inotify_wd_to_entry'[m_mapEntries[p].wd] = p
  /\ p \in DOMAIN fsw => p \in DOMAIN fsw'

DeliveredTo(i, q) == Len(q) - Len(NotFor(i, q))

\* C35 (as stated): the destruction of an instance leaves it a client of no entry, leaves
\* no entry in the table that it has emptied, leaves the entries it shared with other
\* instances their clients and watches, and nothing is delivered to it afterwards
C35_AsStated ==
  [][/\ \A i \in Instances : Destroys(i) =>
          /\ ListedIn(m_mapEntries', i) = {}
          /\ \A p \in DOMAIN m_mapEntries' :
               isValid(m_mapEntries[p]) => isValid(m_mapEntries'[p])
          /\ \A p \in DOMAIN m_mapEntries :
               ClientsBut(m_mapEntries[p], i) # <<>> => KeepsOthers(p, i)
     /\ \A i \in Instances : d[i] = "deleted" => DeliveredTo(i, got') = DeliveredTo(i, got)
    ]_vars

\* C35 (as amended): an entry the destruction has emptied is removed at once, or, when
\* delayRemove is set, put on the removal list
C35_DestroyedInstance ==
  [][/\ \A i \in Instances : Destroys(i) =>
          /\ ListedIn(m_mapEntries', i) = {}
          /\ \A p \in DOMAIN m_mapEntries' :
               isValid(m_mapEntries[p]) =>
                 \/ isValid(m_mapEntries'[p])
                 \/ delayRemove /\ p \in removeList'
          /\ \A p \in DOMAIN m_mapEntries :
               ClientsBut(m_mapEntries[p], i) # <<>> => KeepsOthers(p, i)
     /\ \A i \in Instances : d[i] = "deleted" => DeliveredTo(i, got') = DeliveredTo(i, got)
    ]_vars

\* w1, which had added /a/b twice, has been destroyed, and w2 is still a client of /a/b
C35_Witness ==
  /\ d["w1"] = "deleted"
  /\ hist.adds[<<"w1", PB>>] = 2
  /\ contains("w2", PB)
  /\ budget.calls = 0

(***************************************************************************)
(* Stopping and the other instances: w1 adds /a and /a/b and stops its     *)
(* scan of /a, or all its scans; w2 adds /a and /a/b, before that or after *)
(* it, and never stops; then /a/b is appended to or removed, or /a/t is    *)
(* created.                                                                *)
(***************************************************************************)
InitOthers ==
  /\ \E method \in Methods : InitEngine(method)
  /\ InitFiles(TRUE, TRUE, FALSE)
  /\ InitBudget(MaxFsOps, MaxCalls, MaxPolls)

NextOthers ==
  \/ ~contains("w1", PA) /\ AddDir("w1", PA, WatchDirOnly)
  \/ ~contains("w1", PB) /\ AddFile("w1", PB)
  \/ StopDirScan("w1", PA)
  \/ StopScan("w1")
  \/ hist.ops = <<>> /\ ~contains("w2", PA) /\ AddDir("w2", PA, WatchDirOnly)
  \/ hist.ops = <<>> /\ ~contains("w2", PB) /\ AddFile("w2", PB)
  \/ Quiet /\ AppendToFile(PB)
  \/ Quiet /\ Remove(PB)
  \/ Quiet /\ CreateNewFile(PT)
  \/ Loop

SpecOthers == InitOthers /\ [][NextOthers]_vars

\* the signals the last change of the filesystem owes a client of entry e
Owed(e) ==
  IF LastOp = <<"append", PB>> THEN (IF e = PB THEN {"dirty"} ELSE {})
  ELSE IF LastOp = <<"remove", PB>> THEN (IF e = PB THEN {"deleted"} ELSE {"dirty"})
  ELSE IF e = PA THEN {"dirty"} ELSE {}

\* instance i has got signal sig for path e since the last change of the filesystem
GotSinceLastOp(i, sig, e) ==
  \E k \in (hist.marks[Len(hist.marks)] + 1)..Len(got) : SigAt(k, i, sig, e)

\* C36: an instance that has not stopped and was a client of an entry when its path
\* changed has got the signal of the change once the event loop has nothing left to do,
\* whatever another instance has stopped and whenever
C36_OthersUnaffected ==
  Quiet /\ hist.ops # <<>> =>
    \A e \in {PA, PB} :
      contains("w2", e) /\ ~StoppedOn("w2", e) =>
        \A sig \in Owed(e) : GotSinceLastOp("w2", sig, e)

\* a stop of w1 changes the client records of w1 only
C36_OwnRecordsOnly ==
  [][\A e \in DOMAIN m_mapEntries :
       e \in DOMAIN m_mapEntries' /\ ClientsBut(m_mapEntries[e], "w1") # <<>>
       /\ budget'.calls < budget.calls /\ hist' = hist =>
         ClientsBut(m_mapEntries'[e], "w1") = ClientsBut(m_mapEntries[e], "w1")]_vars

\* the same as C36_OthersUnaffected while w1 has stopped nothing
C36_NobodyStopped ==
  Quiet /\ hist.ops # <<>> /\ ~isStopped
  /\ (\A e \in {PA, PB} : ~StoppedOn("w1", e)) =>
    \A e \in {PA, PB} :
      contains("w2", e) =>
        \A sig \in Owed(e) : GotSinceLastOp("w2", sig, e)

(***************************************************************************)
(* A restart racing with the rescan: w1 adds /a/b, which does not exist,   *)
(* and stops; /a/b is created, as a file or as a directory; w1 restarts    *)
(* with restartDirScan or startScan, before the event loop has handled the *)
(* creation or after it.                                                   *)
(***************************************************************************)
InitRace ==
  /\ \E method \in Methods : InitEngine(method)
  /\ InitFiles(TRUE, FALSE, FALSE)
  /\ InitBudget(MaxFsOps, MaxCalls - 1, MaxPolls)

NextRace ==
  \/ ~contains("w1", PB) /\ AddFile("w1", PB)
  \/ ~contains("w1", PB) /\ AddDir("w1", PB, WatchDirOnly)
  \/ Watching("w1", PB) /\ StopDirScan("w1", PB)
  \/ Watching("w1", PB) /\ StopScan("w1")
  \/ StoppedOn("w1", PB) /\ RestartDirScan("w1", PB)
  \/ \E notify \in BOOLEAN : StoppedOn("w1", PB) /\ StartScan("w1", notify, FALSE)
  \/ contains("w1", PB) /\ CreateNewFile(PB)
  \/ contains("w1", PB) /\ MkdirNew(PB)
  \/ Loop

SpecRace == InitRace /\ [][NextRace]_vars

\* the entry holds a watch descriptor of its own
HoldsWatch(e) == m_mapEntries[e].wd > 0

\* C37: an entry whose status is Normal and whose mode is INotifyMode, and which is not
\* on the removal list, holds a watch descriptor
C37_NormalHoldsWatch ==
  \A e \in DOMAIN m_mapEntries :
    /\ m_mapEntries[e].m_status = "Normal"
    /\ m_mapEntries[e].m_mode = "INotifyMode"
    /\ e \notin removeList
    => HoldsWatch(e)

\* the same for the behaviours without a restart
C37_WithoutRestart == ~hist.restarted => C37_NormalHoldsWatch

\* QFileSystemWatcher::directoryChanged / fileChanged, the loop of the handler ending in
\* one of the ways above
FswSignalUnder(p) ==
  /\ ~looping
  /\ p \in fswq
  /\ fswq' = fswq \ {p}
  /\ \E how \in IterationOutcomes :
     \E S \in {Call("fswEventReceivedUnder", Cur, <<p, how>>)} : Commit(S)
  /\ EnvUnchanged /\ UNCHANGED <<isStopped, budget, hist, d, other,
                             m_referencesObjects>>

(***************************************************************************)
(* w1 adds /a/b and /a/t, which do not exist, and may add /a; /a/b and     *)
(* /a/t are created, and QFileSystemWatcher signals the change of /a.      *)
(***************************************************************************)
InitIterate ==
  /\ \E method \in Methods : InitEngine(method)
  /\ InitFiles(TRUE, FALSE, FALSE)
  /\ InitBudget(MaxFsOps + 1, MaxCalls - 1, MaxPolls - 1)

NextIterate ==
  \/ \E p \in {PB, PT} : ~contains("w1", p) /\ AddFile("w1", p)
  \/ ~contains("w1", PA) /\ AddDir("w1", PA, WatchDirOnly)
  \/ \E p \in {PB, PT} : contains("w1", p) /\ CreateNewFile(p)
  \/ RescanTimeout
  \/ StatTimeout
  \/ RemoveDelayedTimeout
  \/ InotifyActivated
  \/ \E p \in Paths : FswSignalUnder(p)
  \/ Deliver

SpecIterate == InitIterate /\ [][NextIterate]_vars

\* the step handles QFileSystemWatcher's signal for p, an existing directory whose entry
\* has sub-entries: fswEventReceived(p) goes through the sub-entries
IteratesOver(p) ==
  /\ p \in fswq /\ fswq' = fswq \ {p}
  /\ p \in DOMAIN m_mapEntries
  /\ m_mapEntries[p].isDir /\ m_mapEntries[p].m_status = "Normal" /\ Exists(p)
  /\ m_mapEntries[p].m_entries # <<>>

\* C38: the entry whose sub-entries fswEventReceived goes through is not destroyed by
\* the calls of the loop, and its list of sub-entries is not changed by them
C38_ListIntact ==
  [][\A p \in Paths :
       IteratesOver(p) =>
         /\ p \in DOMAIN m_mapEntries'
         /\ m_mapEntries'[p].m_entries = m_mapEntries[p].m_entries]_vars

\* the entry is not destroyed while it has a client of its own
C38_EntryKept ==
  [][\A p \in Paths :
       IteratesOver(p) /\ m_mapEntries[p].m_clients # <<>> => p \in DOMAIN m_mapEntries']_vars

(***************************************************************************)
(* Counting the polled entries: any preferred method, inotify available or *)
(* not, the kernel allowing one inotify watch or more; w1 and w2 add and   *)
(* remove /a and /a/b, while /a/b is removed and created again.            *)
(***************************************************************************)
InitCount ==
  /\ \E method \in Methods, supports_inotify \in BOOLEAN, max_user_watches \in {1, MaxIno} :
       InitEngineCfg([method |-> method, nfsMethod |-> "Stat",
                      supports_inotify |-> supports_inotify, nfs |-> FALSE, mount |-> {},
                      poll |-> m_PollInterval, nfsPoll |-> m_nfsPollInterval,
                      max_user_watches |-> max_user_watches])
  /\ InitFiles(TRUE, TRUE, FALSE)
  /\ InitBudget(MaxFsOps + 1, MaxCalls - 1, MaxPolls)

NextCount ==
  \/ ~contains("w1", PA) /\ AddDir("w1", PA, WatchDirOnly)
  \/ \E i \in Instances : ~contains(i, PB) /\ AddFile(i, PB)
  \/ \E p \in {PA, PB} : contains("w1", p) /\ RemoveDir("w1", p)
  \/ CreateNewFile(PB)
  \/ Remove(PB)
  \/ Loop

SpecCount == InitCount /\ [][NextCount]_vars

\* the entries whose mode is StatMode
StatModeEntries == {e \in DOMAIN m_mapEntries : m_mapEntries[e].m_mode = "StatMode"}

\* C39: statEntries is the number of entries in StatMode, and the stat timer is active
\* exactly when there is such an entry
C39_StatCount ==
  /\ statEntries = Cardinality(StatModeEntries)
  /\ m_statRescanTimer <=> StatModeEntries # {}

\* the two parts, one by one
C39_CounterOnly == statEntries = Cardinality(StatModeEntries)
C39_TimerFollowsCounter == m_statRescanTimer <=> statEntries > 0

(***************************************************************************)
(* The engine handles: w1 and w2, created in one thread, add /a/b; an      *)
(* instance is moved to the other thread, adds /a/b there, and instances   *)
(* are destroyed, while /a/b is appended to.                               *)
(***************************************************************************)
InitHandle ==
  /\ \E method \in Methods : InitEngine(method)
  /\ InitFiles(TRUE, TRUE, FALSE)
  /\ InitBudget(MaxFsOps, MaxCalls, MaxPolls - 1)

NextHandle ==
  \/ \E i \in Instances : d[i] \in {"here", "there"} /\ ~contains(i, PB) /\ AddFile(i, PB)
  \/ \E i \in Instances : MoveToThread(i)
  \/ \E i \in Instances : Destroy(i)
  \/ AppendToFile(PB)
  \/ Loop

SpecHandle == InitHandle /\ [][NextHandle]_vars

\* C40: an instance whose d is not null is in the list of references of the engine d
\* points to, and no d points to an engine that has been destroyed
C40_HandlesRecorded ==
  \A i \in Instances :
    /\ d[i] \in {"here", "there"} => i \in m_referencesObjects[d[i]]
    /\ d[i] # "dangling"

\* the same for the instances that have not been moved
C40_RecordedHere ==
  \A i \in Instances : d[i] = "here" => i \in m_referencesObjects["here"]

\* an instance in a list of references points to that engine
C40_RecordedPointsThere ==
  \A e \in {"here", "there"} : \A i \in m_referencesObjects[e] : d[i] = e
=============================================================================
